---- MODULE Spec2Model ----
(***************************************************************************)
(* TradeButler (src-tauri/src/commands.rs): the trade matcher pair_trades, *)
(* the position grouper and the query commands that run them over the      *)
(* trades table.                                                           *)
(*                                                                         *)
(* Numbers.  The program computes in f64.  Quantities and prices are whole *)
(* numbers here, so every comparison against the 0.0001 tolerance is a     *)
(* comparison against zero; money amounts that come out of fee proration   *)
(* are exact rationals <<numerator, denominator>> in lowest terms, so that *)
(* an equality of two amounts is an equality of real numbers.              *)
(*                                                                         *)
(* Timestamps.  A stored timestamp "YYYY-MM-DDTHH:MM:SSZ" is the number of *)
(* its calendar day (one time of day per day); a date argument             *)
(* "YYYY-MM-DD" is the number of its day.  The comparisons between the two *)
(* are the byte-wise string comparisons of the program (TsGeDate,          *)
(* TsLeDate).                                                              *)
(***************************************************************************)
EXTENDS Integers, Sequences, FiniteSets, TLC

VARIABLES trades, call, ret

vars == <<trades, call, ret>>

\* an absent Option<String>
None == "None"
\* an absent date argument (days count from 1)
NoDate == 0
\* an absent trade id (rowids count from 1)
NoId == 0

-----------------------------------------------------------------------------
(* Bounds of the model *)

\* rows the trades table can hold
MaxTrades == 3
\* rows of the table in the specification with fees
MaxFeeTrades == 4
\* rows of the table in the specification of the metrics
MaxMetricTrades == 4

\* the most round trips, one a day, of the tilt specification
MaxRoundTrips == 10

\* the days of the tilt specification on which a round trip may break even
MaxFlatDays == 2

\* the most days, a position a day, of the streak specification
MaxStreakDays == 3

\* files of several days in the specification of the tilt recommendation
MaxBlocks == 7

\* rows of the table in the specification of the P&L of the groups
MaxGroupTrades == 4

\* days of round trips in the specification of the equity curve
MaxCurveDays == 4

\* days of the histogram specification
MaxHistDays == 4

-----------------------------------------------------------------------------
(* Exact arithmetic on money amounts *)

Abs(x) == IF x < 0 THEN -x ELSE x

Min(a, b) == IF a < b THEN a ELSE b

RECURSIVE GCD(_, _)
GCD(a, b) == IF b = 0 THEN a ELSE GCD(b, a % b)

Norm(n, d) ==
    LET g == GCD(Abs(n), d) IN <<n \div g, d \div g>>

R(i) == <<i, 1>>

RAdd(a, b) == Norm(a[1] * b[2] + b[1] * a[2], a[2] * b[2])

RSub(a, b) == Norm(a[1] * b[2] - b[1] * a[2], a[2] * b[2])

RMul(a, b) == Norm(a[1] * b[1], a[2] * b[2])

Ratio(p, q) == Norm(p, q)

RLt(a, b) == a[1] * b[2] < b[1] * a[2]

\* `let x = value;` then Body(x): the value is worked out once
Bind(value, Body(_)) == CHOOSE y \in {Body(x) : x \in {value}} : TRUE

RECURSIVE RSum(_)
RSum(s) == IF s = <<>> THEN R(0) ELSE RAdd(Head(s), RSum(Tail(s)))

-----------------------------------------------------------------------------
(* Symbols: a symbol string and its characters *)

StockSymbol == "AAPL"
OptionSymbol == "SPY251218C00679000"

Chars(symbol) ==
    CASE symbol = "AAPL" -> <<"A", "A", "P", "L">>
      [] symbol = "SPY251218C00679000" ->
            <<"S", "P", "Y", "2", "5", "1", "2", "1", "8", "C",
              "0", "0", "6", "7", "9", "0", "0", "0">>

IsAsciiDigit(c) == c \in {"0", "1", "2", "3", "4", "5", "6", "7", "8", "9"}

Contains(cs, c) == \E i \in 1..Len(cs) : cs[i] = c

is_options_symbol(symbol) ==
    LET cs == Chars(symbol)
        has_call_put == Contains(cs, "C") \/ Contains(cs, "P")
        has_date_pattern ==
            \E i \in 1..(Len(cs) - 5) : \A j \in 0..5 : IsAsciiDigit(cs[i + j])
    IN  IF Len(cs) < 10 THEN FALSE
        ELSE IF ~has_call_put THEN FALSE
        ELSE has_call_put /\ (has_date_pattern \/ Len(cs) > 15)

\* a multiplier that takes every symbol for a stock
OptionsMultiplier_Stock(symbol) == 1

\* let multiplier = if is_options_symbol(&symbol) { 100.0 } else { 1.0 }
OptionsMultiplier(symbol) == IF is_options_symbol(symbol) THEN 100 ELSE 1

to_uppercase(side) ==
    CASE side \in {"Buy", "buy", "BUY"} -> "BUY"
      [] side \in {"Sell", "sell", "SELL"} -> "SELL"
      [] OTHER -> side

-----------------------------------------------------------------------------
(* Timestamps *)

\* a.timestamp.cmp(&b.timestamp) on two stored timestamps
TsLe(a, b) == a <= b

\* the string of a stored timestamp: its date, then the time of day after the 'T'
TimestampString(ts) == <<ts, "T">>

\* the string of a date argument
DateString(date) == <<date>>

\* String::cmp, a <= b: the first unequal place decides, a proper prefix is the smaller
RECURSIVE StrLe(_, _)
StrLe(a, b) ==
    IF a = <<>> THEN TRUE
    ELSE IF b = <<>> THEN FALSE
    ELSE IF Head(a) = Head(b) THEN StrLe(Tail(a), Tail(b))
    ELSE Head(a) < Head(b)

\* timestamp >= 'YYYY-MM-DD': the date is a prefix of every timestamp of its day
TsGeDate(ts, date) == StrLe(DateString(date), TimestampString(ts))

\* timestamp <= 'YYYY-MM-DD': a timestamp of that day is the longer string
TsLeDate(ts, date) == StrLe(TimestampString(ts), DateString(date))

\* exit_timestamp.split('T').next() and strftime('%Y-%m-%d', timestamp)
DateOf(ts) == Head(TimestampString(ts))

RECURSIVE InsertByTimestamp(_, _)
InsertByTimestamp(sorted, t) ==
    IF sorted = <<>> THEN <<t>>
    ELSE IF TsLe(Head(sorted).timestamp, t.timestamp)
         THEN <<Head(sorted)>> \o InsertByTimestamp(Tail(sorted), t)
         ELSE <<t>> \o sorted

\* sort_by(|a, b| a.timestamp.cmp(&b.timestamp)): stable
RECURSIVE SortByTimestamp(_)
SortByTimestamp(s) ==
    IF s = <<>> THEN <<>>
    ELSE Bind(SortByTimestamp(SubSeq(s, 1, Len(s) - 1)),
              LAMBDA sorted : InsertByTimestamp(sorted, s[Len(s)]))

-----------------------------------------------------------------------------
(* pair_trades *)

RemoveAt(s, i) == SubSeq(s, 1, i - 1) \o SubSeq(s, i + 1, Len(s))

Lot(id, qty, price, timestamp, fees) ==
    [id |-> id, qty |-> qty, price |-> price, timestamp |-> timestamp, fees |-> fees]

PushLot(map, symbol, lot) ==
    IF symbol \in DOMAIN map
    THEN [map EXCEPT ![symbol] = Append(@, lot)]
    ELSE (symbol :> <<lot>>) @@ map

\* an index that is the front of the list under either policy
position_index_Front(positions, is_fifo) == 1

\* let position_index = if is_fifo { 0 } else { positions.len() - 1 }
position_index(positions, is_fifo) == IF is_fifo THEN 1 ELSE Len(positions)

\* the fee of a lot that goes to a close of qty_to_close out of lot_remaining_qty
ProrateLotFees(lot_fees, qty_to_close, lot_remaining_qty) ==
    RMul(lot_fees, Ratio(qty_to_close, lot_remaining_qty))

\* the fee of the incoming trade that goes to a close of qty_to_close
ProrateTradeFees(total_fees, qty_to_close, total_qty) ==
    RMul(total_fees, Ratio(qty_to_close, total_qty))

NetPnl(gross_pnl, entry_fees, exit_fees) ==
    RSub(RSub(R(gross_pnl), entry_fees), exit_fees)

MakePair(symbol, lot, trade, qty_to_close, gross_pnl, lot_fees, trade_fees) ==
    [symbol |-> symbol,
     entry_trade_id |-> lot.id,
     exit_trade_id |-> trade.id,
     quantity |-> qty_to_close,
     entry_price |-> lot.price,
     exit_price |-> trade.price,
     entry_timestamp |-> lot.timestamp,
     exit_timestamp |-> trade.timestamp,
     gross_profit_loss |-> RMul(R(gross_pnl), R(OptionsMultiplier(symbol))),
     entry_fees |-> lot_fees,
     exit_fees |-> trade_fees,
     net_profit_loss |->
        RMul(NetPnl(gross_pnl, lot_fees, trade_fees), R(OptionsMultiplier(symbol)))]

\* the gross P&L of a short close taken as exit price less entry price
ShortGrossPnl_ExitLessEntry(sell_price, buy_price, qty_to_close) ==
    (buy_price - sell_price) * qty_to_close

\* let gross_pnl = (sell_price - buy_price) * qty_to_close: a BUY closes a short lot
ShortGrossPnl(sell_price, buy_price, qty_to_close) ==
    (sell_price - buy_price) * qty_to_close

\* let gross_pnl = (sell_price - buy_price) * qty_to_close: a SELL closes a long lot
LongGrossPnl(sell_price, buy_price, qty_to_close) ==
    (sell_price - buy_price) * qty_to_close

\* a lot that keeps its quantity when part of it is closed
ReduceLot_Unchanged(lot, qty_to_close) == lot

\* the lot at position_index after qty_to_close of it is closed
ReduceLot(lot, qty_to_close) == [lot EXCEPT !.qty = @ - qty_to_close]

\* while remaining_buy_qty > 0.0001 && !positions.is_empty(): a BUY closes short lots
RECURSIVE CloseShortLots(_, _, _, _, _)
CloseShortLots(positions, remaining_buy_qty, pairs, trade, is_fifo) ==
    IF ~(remaining_buy_qty > 0 /\ positions # <<>>)
    THEN [positions |-> positions, remaining |-> remaining_buy_qty, pairs |-> pairs]
    ELSE LET idx == position_index(positions, is_fifo)
             lot == positions[idx]
             qty_to_close == Min(remaining_buy_qty, lot.qty)
             prorated_sell_fees == ProrateLotFees(lot.fees, qty_to_close, lot.qty)
             prorated_buy_fees == ProrateTradeFees(trade.fees, qty_to_close, trade.quantity)
             gross_pnl == ShortGrossPnl(lot.price, trade.price, qty_to_close)
             pair == MakePair(trade.symbol, lot, trade, qty_to_close, gross_pnl,
                              prorated_sell_fees, prorated_buy_fees)
             reduced == [positions EXCEPT ![idx] = ReduceLot(lot, qty_to_close)]
             kept == IF reduced[idx].qty < 1 THEN RemoveAt(reduced, idx) ELSE reduced
         IN  CloseShortLots(kept, remaining_buy_qty - qty_to_close,
                            Append(pairs, pair), trade, is_fifo)

\* while remaining_sell_qty > 0.0001 && !positions.is_empty(): a SELL closes long lots
RECURSIVE CloseLongLots(_, _, _, _, _)
CloseLongLots(positions, remaining_sell_qty, pairs, trade, is_fifo) ==
    IF ~(remaining_sell_qty > 0 /\ positions # <<>>)
    THEN [positions |-> positions, remaining |-> remaining_sell_qty, pairs |-> pairs]
    ELSE LET idx == position_index(positions, is_fifo)
             lot == positions[idx]
             qty_to_close == Min(remaining_sell_qty, lot.qty)
             prorated_buy_fees == ProrateLotFees(lot.fees, qty_to_close, lot.qty)
             prorated_sell_fees == ProrateTradeFees(trade.fees, qty_to_close, trade.quantity)
             gross_pnl == LongGrossPnl(trade.price, lot.price, qty_to_close)
             pair == MakePair(trade.symbol, lot, trade, qty_to_close, gross_pnl,
                              prorated_buy_fees, prorated_sell_fees)
             reduced == [positions EXCEPT ![idx] = ReduceLot(lot, qty_to_close)]
             kept == IF reduced[idx].qty < 1 THEN RemoveAt(reduced, idx) ELSE reduced
         IN  CloseLongLots(kept, remaining_sell_qty - qty_to_close,
                           Append(pairs, pair), trade, is_fifo)

\* the remainder lot opened with the whole quantity of the trade
RemainderLot_WholeQuantity(trade, remaining) ==
    Lot(trade.id, trade.quantity, trade.price, trade.timestamp,
        RMul(trade.fees, Ratio(remaining, trade.quantity)))

\* the lot opened by what is left of a trade that closed opposite lots
RemainderLot(trade, remaining) ==
    Lot(trade.id, remaining, trade.price, trade.timestamp,
        RMul(trade.fees, Ratio(remaining, trade.quantity)))

WholeLot(trade) ==
    Lot(trade.id, trade.quantity, trade.price, trade.timestamp, trade.fees)

\* a BUY that opens a long lot without looking at the short lots
ProcessBuy_OpenOnly(m, trade, is_fifo) ==
    [m EXCEPT !.long = PushLot(m.long, trade.symbol, WholeLot(trade))]

\* one iteration of `for trade in sorted_trades`, side BUY
ProcessBuy(m, trade, is_fifo) ==
    IF trade.symbol \in DOMAIN m.short
    THEN LET r == CloseShortLots(m.short[trade.symbol], trade.quantity, <<>>, trade, is_fifo)
         IN  [long |-> IF r.remaining > 0
                       THEN PushLot(m.long, trade.symbol, RemainderLot(trade, r.remaining))
                       ELSE m.long,
              short |-> [m.short EXCEPT ![trade.symbol] = r.positions],
              pairs |-> m.pairs \o r.pairs]
    ELSE [m EXCEPT !.long = PushLot(m.long, trade.symbol, WholeLot(trade))]

\* one iteration of `for trade in sorted_trades`, side SELL
ProcessSell(m, trade, is_fifo) ==
    IF trade.symbol \in DOMAIN m.long
    THEN LET r == CloseLongLots(m.long[trade.symbol], trade.quantity, <<>>, trade, is_fifo)
         IN  [long |-> [m.long EXCEPT ![trade.symbol] = r.positions],
              short |-> IF r.remaining > 0
                        THEN PushLot(m.short, trade.symbol, RemainderLot(trade, r.remaining))
                        ELSE m.short,
              pairs |-> m.pairs \o r.pairs]
    ELSE [m EXCEPT !.short = PushLot(m.short, trade.symbol, WholeLot(trade))]

ProcessTrade(m, trade, is_fifo) ==
    IF to_uppercase(trade.side) = "BUY" THEN ProcessBuy(m, trade, is_fifo)
    ELSE IF to_uppercase(trade.side) = "SELL" THEN ProcessSell(m, trade, is_fifo)
    ELSE m

EmptyMap == [s \in {} |-> <<>>]

EmptyMatcher == [long |-> EmptyMap, short |-> EmptyMap, pairs |-> <<>>]

\* the matcher's state after the first n trades of the sorted list
RECURSIVE MatchPrefix(_, _, _)
MatchPrefix(sorted_trades, n, is_fifo) ==
    IF n = 0 THEN EmptyMatcher
    ELSE Bind(MatchPrefix(sorted_trades, n - 1, is_fifo),
              LAMBDA m : ProcessTrade(m, sorted_trades[n], is_fifo))

\* the matcher on the list as it is handed over, without the sort
MatchAll_Unsorted(trade_list, is_fifo) ==
    MatchPrefix(trade_list, Len(trade_list), is_fifo)

MatchAll(trade_list, is_fifo) ==
    Bind(SortByTimestamp(trade_list),
         LAMBDA sorted_trades : MatchPrefix(sorted_trades, Len(sorted_trades), is_fifo))

OpenTrade(symbol, side, lot) ==
    [id |-> lot.id, symbol |-> symbol, side |-> side, quantity |-> lot.qty,
     price |-> lot.price, timestamp |-> lot.timestamp, status |-> "OPEN",
     fees |-> lot.fees]

RECURSIVE OpenOfLots(_, _, _)
OpenOfLots(symbol, side, positions) ==
    IF positions = <<>> THEN <<>>
    ELSE (IF Head(positions).qty > 0
          THEN <<OpenTrade(symbol, side, Head(positions))>> ELSE <<>>)
         \o OpenOfLots(symbol, side, Tail(positions))

\* for (symbol, positions) in map: the map is walked in the order `order`
RECURSIVE OpenOfMap(_, _, _)
OpenOfMap(map, side, order) ==
    IF order = <<>> THEN <<>>
    ELSE OpenOfLots(Head(order), side, map[Head(order)]) \o OpenOfMap(map, side, Tail(order))

\* the orders in which a HashMap with key set S can be iterated
Orders(S) == {o \in [1..Cardinality(S) -> S] : \A i, j \in DOMAIN o : i # j => o[i] # o[j]}

\* lines 477-518: the open lots of both maps as trades, each map walked in its order
EmitOutput(m, long_order, short_order) ==
    [pairs |-> m.pairs,
     open_trades |-> OpenOfMap(m.long, "BUY", long_order)
                     \o OpenOfMap(m.short, "SELL", short_order)]

\* the pairs pair_trades(trades, is_fifo) returns (they do not depend on the map order)
pair_trades(trade_list, is_fifo) == MatchAll(trade_list, is_fifo).pairs

pair_trades_fifo(trade_list) == pair_trades(trade_list, TRUE)

pair_trades_lifo(trade_list) == pair_trades(trade_list, FALSE)

\* pairing_method.as_deref().unwrap_or("FIFO") == "FIFO"
use_fifo(pairing_method) ==
    (IF pairing_method = None THEN "FIFO" ELSE pairing_method) = "FIFO"

-----------------------------------------------------------------------------
(* The trades table *)

IsFilled(status) == status = "Filled" \/ status = "FILLED"

\* the optional date filter of the SQL queries: timestamp >= 'start' AND timestamp <= 'end'
InDateFilter(timestamp, start_date, end_date) ==
    /\ (start_date # NoDate => TsGeDate(timestamp, start_date))
    /\ (end_date # NoDate => TsLeDate(timestamp, end_date))

RECURSIVE Reverse(_)
Reverse(s) == IF s = <<>> THEN <<>> ELSE Append(Reverse(Tail(s)), Head(s))

\* SELECT ... FROM trades WHERE status = 'Filled' OR status = 'FILLED' ORDER BY timestamp ASC
\* (rows of one timestamp come in rowid order)
SelectFilled(rows) ==
    LET Keep(t) == IsFilled(t.status) IN SortByTimestamp(SelectSeq(rows, Keep))

\* SELECT ... WHERE (status = 'Filled' OR status = 'FILLED') AND timestamp >= .. AND
\* timestamp <= .. ORDER BY timestamp ASC
SelectFilledInRange(rows, start_date, end_date) ==
    LET Keep(t) == IsFilled(t.status) /\ InDateFilter(t.timestamp, start_date, end_date)
    IN  SortByTimestamp(SelectSeq(rows, Keep))

\* SELECT ... FROM trades [WHERE 1=1 AND timestamp >= .. AND timestamp <= ..]
\* ORDER BY timestamp DESC
SelectAllInRange(rows, start_date, end_date) ==
    LET Keep(t) == InDateFilter(t.timestamp, start_date, end_date)
    IN  Reverse(SortByTimestamp(Reverse(SelectSeq(rows, Keep))))

IsDuplicate(rows, t) ==
    \E i \in 1..Len(rows) :
        /\ rows[i].symbol = t.symbol
        /\ rows[i].side = t.side
        /\ rows[i].quantity = t.quantity
        /\ rows[i].price = t.price
        /\ rows[i].timestamp = t.timestamp

\* the filter of the pairs by exit timestamp that follows the matcher in the commands
PairInRange(pair, start_date, end_date) ==
    /\ (start_date # NoDate => TsGeDate(pair.exit_timestamp, start_date))
    /\ (end_date # NoDate => TsLeDate(pair.exit_timestamp, end_date))

FilterPairs(pairs, start_date, end_date) ==
    LET Keep(p) == PairInRange(p, start_date, end_date)
    IN  IF start_date # NoDate \/ end_date # NoDate THEN SelectSeq(pairs, Keep) ELSE pairs

MatchWith(trade_list, pairing_method) ==
    IF use_fifo(pairing_method) THEN pair_trades_fifo(trade_list)
    ELSE pair_trades_lifo(trade_list)

-----------------------------------------------------------------------------
(* get_position_groups *)

Ids(trade_list) == {trade_list[i].id : i \in 1..Len(trade_list)}

\* a position size that counts every trade as bought
SignedQty_Bought(trade) == trade.quantity

SignedQty(trade) ==
    IF to_uppercase(trade.side) = "BUY" THEN trade.quantity
    ELSE IF to_uppercase(trade.side) = "SELL" THEN -trade.quantity
    ELSE 0

\* a set of processed ids that forgets the trade
MarkProcessed_Forget(processed, id) == processed

\* processed_trade_ids.insert(id)
MarkProcessed(processed, id) == processed \cup {id}

\* a position that counts as closed while one unit of it is still held
IsFlat_WithinOne(position_size) == Abs(position_size) < 2

\* position_size.abs() < 0.0001, on whole quantities
IsFlat(position_size) == Abs(position_size) < 1

\* for subsequent_trade in all_trades.iter().skip(idx + 1): from index j on
RECURSIVE ScanPosition(_, _, _, _, _, _)
ScanPosition(all_trades, j, symbol, position_trades, processed, position_size) ==
    IF j > Len(all_trades)
    THEN [position_trades |-> position_trades, processed |-> processed,
          position_size |-> position_size]
    ELSE LET t == all_trades[j] IN
         IF t.symbol # symbol \/ t.id \in processed
         THEN ScanPosition(all_trades, j + 1, symbol, position_trades, processed,
                           position_size)
         ELSE LET size == position_size + SignedQty(t) IN
              IF IsFlat(size)
              THEN [position_trades |-> Append(position_trades, t),
                    processed |-> MarkProcessed(processed, t.id),
                    position_size |-> size]
              ELSE ScanPosition(all_trades, j + 1, symbol, Append(position_trades, t),
                                MarkProcessed(processed, t.id), size)

\* pairs whose entry or exit trade is one of position_trades
PairsOfPosition(paired_trades, position_trades) ==
    LET Touches(p) == \E i \in 1..Len(position_trades) :
                         \/ position_trades[i].id = p.entry_trade_id
                         \/ position_trades[i].id = p.exit_trade_id
    IN  SelectSeq(paired_trades, Touches)

NetOf(pairs) == [i \in 1..Len(pairs) |-> pairs[i].net_profit_loss]

PositionPnl(paired_trades, position_trades) ==
    RSum(NetOf(PairsOfPosition(paired_trades, position_trades)))

\* for (idx, trade) in all_trades.iter().enumerate()
RECURSIVE BuildGroups(_, _, _, _, _)
BuildGroups(all_trades, idx, processed, position_groups, paired_trades) ==
    IF idx > Len(all_trades) THEN position_groups
    ELSE LET trade == all_trades[idx]
             is_entry == to_uppercase(trade.side) = "BUY" \/ to_uppercase(trade.side) = "SELL"
         IN  IF trade.id \in processed \/ ~is_entry
             THEN BuildGroups(all_trades, idx + 1, processed, position_groups, paired_trades)
             ELSE Bind(ScanPosition(all_trades, idx + 1, trade.symbol, <<trade>>,
                                    MarkProcessed(processed, trade.id),
                                    SignedQty(trade)), LAMBDA r :
                  Bind([entry_trade |-> trade,
                        position_trades |-> SortByTimestamp(r.position_trades),
                        total_pnl |-> PositionPnl(paired_trades, r.position_trades),
                        final_quantity |-> r.position_size], LAMBDA group :
                      BuildGroups(all_trades, idx + 1, r.processed,
                                  Append(position_groups, group), paired_trades)))

\* position_groups.sort_by(|a, b| b.entry_trade.timestamp.cmp(&a.entry_trade.timestamp))
RECURSIVE InsertGroupDesc(_, _)
InsertGroupDesc(sorted, g) ==
    IF sorted = <<>> THEN <<g>>
    ELSE IF TsLe(g.entry_trade.timestamp, Head(sorted).entry_trade.timestamp)
         THEN <<Head(sorted)>> \o InsertGroupDesc(Tail(sorted), g)
         ELSE <<g>> \o sorted

RECURSIVE SortGroupsDesc(_)
SortGroupsDesc(s) ==
    IF s = <<>> THEN <<>>
    ELSE Bind(SortGroupsDesc(SubSeq(s, 1, Len(s) - 1)),
              LAMBDA sorted : InsertGroupDesc(sorted, s[Len(s)]))

\* the groups of the trade list all_trades, with the pairs of the same list
GroupPositions(all_trades, pairing_method) ==
    Bind(MatchWith(all_trades, pairing_method), LAMBDA paired_trades :
    Bind(BuildGroups(all_trades, 1, {}, <<>>, paired_trades), LAMBDA position_groups :
        SortGroupsDesc(position_groups)))

PositionGroupsOf(rows, pairing_method, start_date, end_date) ==
    Bind(SelectFilledInRange(rows, start_date, end_date),
         LAMBDA all_trades : GroupPositions(all_trades, pairing_method))

-----------------------------------------------------------------------------
(* get_paired_trades, get_trades_with_pairing, get_metrics *)

PairedTradesOf(rows, pairing_method) ==
    Bind(SelectFilled(rows), LAMBDA trade_list : MatchWith(trade_list, pairing_method))

TradesWithPairingOf(rows, pairing_method, start_date, end_date) ==
    Bind(SelectAllInRange(rows, start_date, end_date), LAMBDA all_trades :
    Bind(FilterPairs(MatchWith(all_trades, pairing_method), start_date, end_date),
         LAMBDA filtered :
        LET EntryPairs(id) == LET Is(p) == p.entry_trade_id = id IN SelectSeq(filtered, Is)
            ExitPairs(id) == LET Is(p) == p.exit_trade_id = id IN SelectSeq(filtered, Is)
        IN  [i \in 1..Len(all_trades) |->
                [trade |-> all_trades[i],
                 entry_pairs |-> EntryPairs(all_trades[i].id),
                 exit_pairs |-> ExitPairs(all_trades[i].id)]]))

\* a largest win that stays at the first winning group
LargestWin_First(position_groups, i, largest_win, group_id) ==
    LET Won(g) == RLt(R(0), g.total_pnl)
        won == SelectSeq(position_groups, Won)
    IN  IF won = <<>> THEN [value |-> largest_win, group_id |-> group_id]
        ELSE [value |-> won[1].total_pnl, group_id |-> won[1].entry_trade.id]

\* lines 1402-1423: the largest win over the position groups, with its group's entry id
RECURSIVE LargestWin(_, _, _, _)
LargestWin(position_groups, i, largest_win, group_id) ==
    IF i > Len(position_groups) THEN [value |-> largest_win, group_id |-> group_id]
    ELSE LET pnl == position_groups[i].total_pnl IN
         IF RLt(R(0), pnl) /\ RLt(largest_win, pnl)
         THEN LargestWin(position_groups, i + 1, pnl, position_groups[i].entry_trade.id)
         ELSE LargestWin(position_groups, i + 1, largest_win, group_id)

\* the largest loss; NegInf stands for f64::NEG_INFINITY
NegInf == <<-1, 0>>

RECURSIVE LargestLoss(_, _, _, _)
LargestLoss(position_groups, i, largest_loss, group_id) ==
    IF i > Len(position_groups) THEN [value |-> largest_loss, group_id |-> group_id]
    ELSE LET pnl == position_groups[i].total_pnl IN
         IF ~RLt(R(0), pnl) /\ RLt(pnl, R(0))
            /\ (largest_loss = NegInf \/ RLt(pnl, largest_loss))
         THEN LargestLoss(position_groups, i + 1, pnl, position_groups[i].entry_trade.id)
         ELSE LargestLoss(position_groups, i + 1, largest_loss, group_id)

\* f64::INFINITY
Inf == <<1, 0>>

\* a / b for b > 0
RDiv(a, b) == Norm(a[1] * b[2], a[2] * b[1])

\* pnl.abs()
RAbs(a) == <<Abs(a[1]), a[2]>>

\* the counters of get_metrics before its loop over the pairs
NoPairsScanned ==
    [winning_trades |-> 0, losing_trades |-> 0, total_profit_loss |-> R(0),
     total_profit |-> R(0), total_loss |-> R(0), profit_count |-> 0, loss_count |-> 0,
     consecutive_wins |-> 0, consecutive_losses |-> 0,
     current_win_streak |-> 0, current_loss_streak |-> 0]

\* one pass of `for paired in &filtered_paired_trades` with pnl > 0.0
ScanWin(c, pnl) ==
    [c EXCEPT !.total_profit_loss = RAdd(@, pnl),
              !.winning_trades = @ + 1,
              !.total_profit = RAdd(@, pnl),
              !.profit_count = @ + 1,
              !.current_loss_streak = 0,
              !.current_win_streak = @ + 1,
              !.consecutive_wins = IF c.current_win_streak + 1 > @
                                   THEN c.current_win_streak + 1 ELSE @]

\* one pass with pnl < 0.0
ScanLoss(c, pnl) ==
    [c EXCEPT !.total_profit_loss = RAdd(@, pnl),
              !.losing_trades = @ + 1,
              !.total_loss = RAdd(@, RAbs(pnl)),
              !.loss_count = @ + 1,
              !.current_win_streak = 0,
              !.current_loss_streak = @ + 1,
              !.consecutive_losses = IF c.current_loss_streak + 1 > @
                                     THEN c.current_loss_streak + 1 ELSE @]

\* one pass with pnl neither above nor below zero: only the total is touched
ScanFlat(c, pnl) == [c EXCEPT !.total_profit_loss = RAdd(@, pnl)]

\* the counters after the first n pairs of the loop
RECURSIVE ScanPairs(_, _)
ScanPairs(pairs, n) ==
    IF n = 0 THEN NoPairsScanned
    ELSE LET pnl == pairs[n].net_profit_loss
         IN  Bind(ScanPairs(pairs, n - 1),
                  LAMBDA c : IF RLt(R(0), pnl) THEN ScanWin(c, pnl)
                             ELSE IF RLt(pnl, R(0)) THEN ScanLoss(c, pnl)
                             ELSE ScanFlat(c, pnl))

\* total / count when count > 0, else 0.0
AverageOf(total, count) == IF count > 0 THEN RDiv(total, R(count)) ELSE R(0)

\* profit_factor and risk_reward_ratio before they are put into Metrics
RatioOrInfinity(gain, loss) ==
    IF RLt(R(0), loss) THEN RDiv(gain, loss)
    ELSE IF RLt(R(0), gain) THEN Inf
    ELSE R(0)

\* a Metrics field that keeps an infinite ratio
NormaliseInfinity_Keep(x) == x

\* if x == f64::INFINITY { 0.0 } else { x }
NormaliseInfinity(x) == IF x = Inf THEN R(0) ELSE x

\* the days of get_daily_pnl: the days of the Filled trades and the exit days of the pairs
DaysOf(rows, paired_trades) ==
    {DateOf(rows[i].timestamp) : i \in {k \in 1..Len(rows) : IsFilled(rows[k].status)}}
    \cup {DateOf(paired_trades[i].exit_timestamp) : i \in 1..Len(paired_trades)}

\* the net P&L of the pairs that exit on the day
DayPnl(paired_trades, day) ==
    LET On(p) == DateOf(p.exit_timestamp) = day
    IN  RSum(NetOf(SelectSeq(paired_trades, On)))

\* the days of a set from the latest to the earliest
RECURSIVE DaysDescending(_)
DaysDescending(days) ==
    IF days = {} THEN <<>>
    ELSE LET latest == CHOOSE d \in days : \A e \in days : e <= d
         IN  <<latest>> \o DaysDescending(days \ {latest})

\* get_daily_pnl(): one record per day, sorted by date descending; the pairs are
\* those of get_paired_trades(None)
DailyPnlOf(rows) ==
    Bind(PairedTradesOf(rows, None), LAMBDA paired_trades :
    Bind(DaysDescending(DaysOf(rows, paired_trades)), LAMBDA days :
        [i \in 1..Len(days) |->
            [date |-> days[i], profit_loss |-> DayPnl(paired_trades, days[i])]]))

\* daily_pnl.retain(|d| d.date >= start && d.date <= end): two date strings
DayInRange(date, start_date, end_date) ==
    /\ (start_date # NoDate => StrLe(DateString(start_date), DateString(date)))
    /\ (end_date # NoDate => StrLe(DateString(date), DateString(end_date)))

RetainDays(daily_pnl, start_date, end_date) ==
    LET Keep(d) == DayInRange(d.date, start_date, end_date)
    IN  IF start_date # NoDate \/ end_date # NoDate THEN SelectSeq(daily_pnl, Keep)
        ELSE daily_pnl

\* Iterator::max_by on profit_loss: of several maxima the last one
RECURSIVE MaxDay(_, _)
MaxDay(daily_pnl, n) ==
    IF n = 1 THEN daily_pnl[1]
    ELSE LET best == MaxDay(daily_pnl, n - 1)
         IN  IF RLt(daily_pnl[n].profit_loss, best.profit_loss) THEN best ELSE daily_pnl[n]

\* Iterator::min_by on profit_loss: of several minima the first one
RECURSIVE MinDay(_, _)
MinDay(daily_pnl, n) ==
    IF n = 1 THEN daily_pnl[1]
    ELSE LET worst == MinDay(daily_pnl, n - 1)
         IN  IF RLt(daily_pnl[n].profit_loss, worst.profit_loss) THEN daily_pnl[n] ELSE worst

MetricsOf(rows, pairing_method, start_date, end_date) ==
    Bind(FilterPairs(PairedTradesOf(rows, pairing_method), start_date, end_date),
         LAMBDA filtered :
    Bind(PositionGroupsOf(rows, pairing_method, start_date, end_date),
         LAMBDA position_groups :
    Bind(LargestWin(position_groups, 1, R(0), NoId), LAMBDA win :
    Bind(LargestLoss(position_groups, 1, NegInf, NoId), LAMBDA loss :
    Bind(ScanPairs(filtered, Len(filtered)), LAMBDA c :
    Bind(AverageOf(c.total_profit, c.profit_count), LAMBDA average_profit :
    Bind(AverageOf(c.total_loss, c.loss_count), LAMBDA average_loss :
    Bind(RetainDays(DailyPnlOf(rows), start_date, end_date), LAMBDA daily_pnl :
        [total_trades |-> Len(filtered),
         winning_trades |-> c.winning_trades,
         losing_trades |-> c.losing_trades,
         total_profit_loss |-> c.total_profit_loss,
         average_profit |-> average_profit,
         average_loss |-> average_loss,
         largest_win |-> win.value,
         largest_loss |-> IF loss.value = NegInf THEN R(0) ELSE loss.value,
         consecutive_wins |-> c.consecutive_wins,
         consecutive_losses |-> c.consecutive_losses,
         current_win_streak |-> c.current_win_streak,
         current_loss_streak |-> c.current_loss_streak,
         profit_factor |-> NormaliseInfinity(RatioOrInfinity(c.total_profit, c.total_loss)),
         risk_reward_ratio |-> NormaliseInfinity(RatioOrInfinity(average_profit, average_loss)),
         trades_per_day |-> IF Len(daily_pnl) > 0
                            THEN RDiv(R(Len(filtered)), R(Len(daily_pnl))) ELSE R(0),
         best_day |-> IF daily_pnl # <<>>
                      THEN MaxDay(daily_pnl, Len(daily_pnl)).profit_loss ELSE R(0),
         worst_day |-> IF daily_pnl # <<>>
                       THEN MinDay(daily_pnl, Len(daily_pnl)).profit_loss ELSE R(0),
         best_day_date |-> IF daily_pnl # <<>>
                           THEN MaxDay(daily_pnl, Len(daily_pnl)).date ELSE NoDate,
         worst_day_date |-> IF daily_pnl # <<>>
                            THEN MinDay(daily_pnl, Len(daily_pnl)).date ELSE NoDate,
         largest_win_group_id |-> win.group_id,
         largest_loss_group_id |-> loss.group_id]))))))))

-----------------------------------------------------------------------------
(* get_equity_curve *)

\* filtered_paired_trades.sort_by(|a, b| a.exit_timestamp.cmp(&b.exit_timestamp)): stable
RECURSIVE InsertByExit(_, _)
InsertByExit(sorted, p) ==
    IF sorted = <<>> THEN <<p>>
    ELSE IF TsLe(Head(sorted).exit_timestamp, p.exit_timestamp)
         THEN <<Head(sorted)>> \o InsertByExit(Tail(sorted), p)
         ELSE <<p>> \o sorted

RECURSIVE SortByExit(_)
SortByExit(s) ==
    IF s = <<>> THEN <<>>
    ELSE Bind(SortByExit(SubSeq(s, 1, Len(s) - 1)),
              LAMBDA sorted : InsertByExit(sorted, s[Len(s)]))

\* dates.sort(): the keys of daily_pnl_map in ascending order
DatesAscending(paired_trades) ==
    Reverse(DaysDescending({DateOf(paired_trades[i].exit_timestamp) :
                               i \in 1..Len(paired_trades)}))

\* the variables of get_equity_curve before its loop over the dates
WalkStart ==
    [equity_points |-> <<>>, cumulative_pnl |-> R(0), peak_equity |-> R(0),
     max_drawdown |-> R(0), max_drawdown_start |-> NoDate, max_drawdown_end |-> NoDate,
     current_drawdown_start |-> NoDate, longest_drawdown_days |-> 0,
     longest_drawdown_start |-> NoDate, longest_drawdown_end |-> NoDate,
     current_drawdown_days |-> 0, current_drawdown_start_date |-> NoDate,
     drawdown_sum |-> R(0), drawdown_count |-> 0,
     current_streak_type |-> None, current_streak_start |-> NoDate,
     winning_streaks |-> <<>>, losing_streaks |-> <<>>,
     best_surge_start |-> NoDate, best_surge_end |-> NoDate, best_surge_value |-> R(0),
     surge_start_date |-> NoDate, surge_start_equity |-> R(0)]

\* a peak that follows the cumulative P&L down as well as up
WalkPeak_Latest(w, date, daily_pnl) ==
    [w EXCEPT !.cumulative_pnl = RAdd(w.cumulative_pnl, daily_pnl),
              !.peak_equity = RAdd(w.cumulative_pnl, daily_pnl),
              !.surge_start_date = date,
              !.surge_start_equity = RAdd(w.cumulative_pnl, daily_pnl)]

\* cumulative_pnl += daily_pnl, then the update of the peak
WalkPeak(w, date, daily_pnl) ==
    LET cumulative_pnl == RAdd(w.cumulative_pnl, daily_pnl)
    IN  IF RLt(w.peak_equity, cumulative_pnl)
        THEN [w EXCEPT !.cumulative_pnl = cumulative_pnl,
                       !.peak_equity = cumulative_pnl,
                       !.surge_start_date = date,
                       !.surge_start_equity = cumulative_pnl]
        ELSE [w EXCEPT !.cumulative_pnl = cumulative_pnl]

\* (drawdown / peak_equity) * 100.0, sign-aware
DrawdownPct(drawdown, peak_equity) ==
    IF RLt(R(0), peak_equity) THEN RMul(RDiv(drawdown, peak_equity), R(100))
    ELSE IF RLt(peak_equity, R(0)) THEN RMul(RDiv(drawdown, RAbs(peak_equity)), R(100))
    ELSE R(0)

\* if drawdown > max_drawdown { .. }
WalkMaxDrawdown(w, date, drawdown) ==
    IF RLt(w.max_drawdown, drawdown)
    THEN LET start == IF w.current_drawdown_start = NoDate THEN date
                      ELSE w.current_drawdown_start
         IN  [w EXCEPT !.max_drawdown = drawdown,
                       !.current_drawdown_start = start,
                       !.max_drawdown_start = start,
                       !.max_drawdown_end = date]
    ELSE w

\* if drawdown > 0.0 { .. } else { .. }: the drawdown periods
WalkDrawdownPeriod(w, date, drawdown) ==
    IF RLt(R(0), drawdown)
    THEN [w EXCEPT !.current_drawdown_start_date = IF @ = NoDate THEN date ELSE @,
                   !.current_drawdown_days = @ + 1,
                   !.drawdown_sum = RAdd(@, drawdown),
                   !.drawdown_count = @ + 1]
    ELSE LET longer == w.current_drawdown_days > w.longest_drawdown_days
         IN  [w EXCEPT !.longest_drawdown_days = IF longer THEN w.current_drawdown_days ELSE @,
                       !.longest_drawdown_start =
                            IF longer THEN w.current_drawdown_start_date ELSE @,
                       !.longest_drawdown_end = IF longer THEN date ELSE @,
                       !.current_drawdown_days = 0,
                       !.current_drawdown_start_date = NoDate,
                       !.current_drawdown_start = NoDate]

\* if let Some(ref surge_start) = surge_start_date { .. }: the best surge
WalkSurge(w, date) ==
    IF /\ w.surge_start_date # NoDate
       /\ RLt(w.surge_start_equity, w.cumulative_pnl)
       /\ RLt(w.best_surge_value, RSub(w.cumulative_pnl, w.surge_start_equity))
    THEN [w EXCEPT !.best_surge_value = RSub(w.cumulative_pnl, w.surge_start_equity),
                   !.best_surge_start = w.surge_start_date,
                   !.best_surge_end = date]
    ELSE w

\* the streak of winning or losing days: a day of the other kind ends the current one
WalkStreak(w, date, daily_pnl) ==
    LET kind == IF RLt(R(0), daily_pnl) THEN "winning"
                ELSE IF RLt(daily_pnl, R(0)) THEN "losing" ELSE None
        other == IF kind = "winning" THEN "losing" ELSE "winning"
        ended == w.current_streak_type = other /\ w.current_streak_start # NoDate
        closed == IF ~ended THEN w
                  ELSE IF other = "losing"
                       THEN [w EXCEPT !.losing_streaks = Append(@, <<w.current_streak_start, date>>)]
                       ELSE [w EXCEPT !.winning_streaks = Append(@, <<w.current_streak_start, date>>)]
        taken == IF w.current_streak_type = other
                 THEN [closed EXCEPT !.current_streak_start = NoDate] ELSE closed
    IN  IF kind = None THEN w
        ELSE IF w.current_streak_type # kind
             THEN [taken EXCEPT !.current_streak_type = kind, !.current_streak_start = date]
             ELSE taken

\* date >= start && date <= end for an Option start and an Option end, both dates
InPeriod(date, start, end) ==
    /\ start # NoDate
    /\ StrLe(DateString(start), DateString(date))
    /\ end # NoDate
    /\ StrLe(DateString(date), DateString(end))

InStreaks(date, streaks) ==
    \E i \in 1..Len(streaks) :
        /\ StrLe(DateString(streaks[i][1]), DateString(date))
        /\ StrLe(DateString(date), DateString(streaks[i][2]))

InCurrentStreak(w, date, kind) ==
    /\ w.current_streak_type = kind
    /\ w.current_streak_start # NoDate
    /\ StrLe(DateString(w.current_streak_start), DateString(date))

\* the EquityPoint pushed at the end of one pass of the loop
PointOf(w, date, daily_pnl, drawdown) ==
    [date |-> date,
     cumulative_pnl |-> w.cumulative_pnl,
     daily_pnl |-> daily_pnl,
     peak_equity |-> w.peak_equity,
     drawdown |-> drawdown,
     drawdown_pct |-> DrawdownPct(drawdown, w.peak_equity),
     is_winning_streak |-> InStreaks(date, w.winning_streaks)
                           \/ InCurrentStreak(w, date, "winning"),
     is_losing_streak |-> InStreaks(date, w.losing_streaks)
                          \/ InCurrentStreak(w, date, "losing"),
     is_max_drawdown |-> InPeriod(date, w.max_drawdown_start, w.max_drawdown_end),
     is_best_surge |-> InPeriod(date, w.best_surge_start, w.best_surge_end)]

\* one pass of `for date in &dates`
WalkDate(w, date, daily_pnl) ==
    Bind(WalkPeak(w, date, daily_pnl), LAMBDA w1 :
    Bind(RSub(w1.peak_equity, w1.cumulative_pnl), LAMBDA drawdown :
    Bind(WalkMaxDrawdown(w1, date, drawdown), LAMBDA w2 :
    Bind(WalkDrawdownPeriod(w2, date, drawdown), LAMBDA w3 :
    Bind(WalkSurge(w3, date), LAMBDA w4 :
    Bind(WalkStreak(w4, date, daily_pnl), LAMBDA w5 :
        [w5 EXCEPT !.equity_points =
            Append(@, PointOf(w5, date, daily_pnl, drawdown))]))))))

\* the variables after the first n dates
RECURSIVE Walk(_, _, _)
Walk(paired_trades, dates, n) ==
    IF n = 0 THEN WalkStart
    ELSE Bind(Walk(paired_trades, dates, n - 1),
              LAMBDA w : Bind(DayPnl(paired_trades, dates[n]),
                              LAMBDA daily_pnl : WalkDate(w, dates[n], daily_pnl)))

EquityCurveOf(rows, pairing_method, start_date, end_date) ==
    Bind(SortByExit(FilterPairs(PairedTradesOf(rows, pairing_method),
                                start_date, end_date)), LAMBDA filtered :
    Bind(DatesAscending(filtered), LAMBDA dates :
    Bind(Walk(filtered, dates, Len(dates)), LAMBDA w :
        [equity_points |-> w.equity_points,
         drawdown_metrics |->
            [max_drawdown |-> w.max_drawdown,
             max_drawdown_pct |-> DrawdownPct(w.max_drawdown, w.peak_equity),
             max_drawdown_start |-> w.max_drawdown_start,
             max_drawdown_end |-> w.max_drawdown_end,
             avg_drawdown |-> AverageOf(w.drawdown_sum, w.drawdown_count),
             longest_drawdown_days |-> w.longest_drawdown_days,
             longest_drawdown_start |-> w.longest_drawdown_start,
             longest_drawdown_end |-> w.longest_drawdown_end],
         best_surge_start |-> w.best_surge_start,
         best_surge_end |-> w.best_surge_end,
         best_surge_value |-> w.best_surge_value])))

-----------------------------------------------------------------------------
(* get_tilt_metric *)

\* `if sorted_trades.len() < 10`
MinTiltPairs == 10

\* const MIN_SAMPLE: i64 = 20
MIN_SAMPLE == 20

\* const WIN_DROP_THRESHOLD: f64 = 0.15
WIN_DROP_THRESHOLD == Ratio(15, 100)

\* const MAX_DROP: f64 = 0.5
MAX_DROP == Ratio(1, 2)

\* recommended_streak: None
NoStreak == 0

RLe(a, b) == ~RLt(b, a)

\* f64::min and f64::max
RMin(a, b) == IF RLt(b, a) THEN b ELSE a
RMax(a, b) == IF RLt(a, b) THEN b ELSE a

\* the result below ten pairs
InsufficientData ==
    [baseline_win_rate |-> R(0), win_rate_after_loss |-> R(0),
     win_rate_after_win |-> R(0), win_rate_after_2_losses |-> R(0),
     avg_loss_normally |-> R(0), avg_loss_after_loss |-> R(0),
     prob_loss_after_loss |-> R(0), tilt_score |-> R(0),
     recommended_streak |-> NoStreak, streak_stats |-> <<>>,
     coaching_lines |-> <<"Not enough trade history">>,
     tilt_category |-> "Insufficient Data"]

\* the values of a list at the places of a set, in the order of the list
ValuesAt(pnl_values, places) ==
    LET Places == SelectSeq([i \in 1..Len(pnl_values) |-> i], LAMBDA i : i \in places)
    IN  [n \in 1..Len(Places) |-> pnl_values[Places[n]]]

\* count / total, or the fallback when there is no sample
RateOf(count, total, fallback) == IF total > 0 THEN Ratio(count, total) ELSE fallback

\* the mean of a list, or the fallback when the list is empty
MeanOf(values, fallback) ==
    IF values = <<>> THEN fallback ELSE RDiv(RSum(values), R(Len(values)))

\* the places that follow k losses in a row and are not break-even
AfterLosses(pnl_values, k) ==
    {i \in (k + 1)..Len(pnl_values) :
        /\ \A j \in (i - k)..(i - 1) : RLt(pnl_values[j], R(0))
        /\ pnl_values[i] # R(0)}

\* the places that follow a win and are not break-even
AfterWin(pnl_values) ==
    {i \in 2..Len(pnl_values) : RLt(R(0), pnl_values[i - 1]) /\ pnl_values[i] # R(0)}

WinsAt(pnl_values, places) == {i \in places : RLt(R(0), pnl_values[i])}

LossesAt(pnl_values, places) == {i \in places : RLt(pnl_values[i], R(0))}

\* the entry of streak_stats for k
StreakStatsOf(pnl_values, k) ==
    LET after == AfterLosses(pnl_values, k)
    IN  [k |-> k,
         sample_size |-> Cardinality(after),
         win_rate_after_k_losses |->
             RateOf(Cardinality(WinsAt(pnl_values, after)), Cardinality(after), R(0)),
         avg_pnl_after_k_losses |-> MeanOf(ValuesAt(pnl_values, after), R(0))]

\* a recommendation that does not look at the drop of the win rate
RecommendedStreak_AnyDrop(streak_stats, baseline_win_rate, i) ==
    LET bad == {n \in i..Len(streak_stats) :
                   /\ streak_stats[n].sample_size >= MIN_SAMPLE
                   /\ RLt(streak_stats[n].avg_pnl_after_k_losses, R(0))}
    IN  IF bad = {} THEN NoStreak
        ELSE streak_stats[CHOOSE n \in bad : \A other \in bad : n <= other].k

\* the first k whose sample is large enough, whose win rate drops and whose mean is negative
RECURSIVE RecommendedStreak(_, _, _)
RecommendedStreak(streak_stats, baseline_win_rate, i) ==
    IF i > Len(streak_stats) THEN NoStreak
    ELSE IF /\ streak_stats[i].sample_size >= MIN_SAMPLE
            /\ RLe(WIN_DROP_THRESHOLD,
                   RSub(baseline_win_rate, streak_stats[i].win_rate_after_k_losses))
            /\ RLt(streak_stats[i].avg_pnl_after_k_losses, R(0))
         THEN streak_stats[i].k
         ELSE RecommendedStreak(streak_stats, baseline_win_rate, i + 1)

\* (drop / MAX_DROP).min(1.0).max(0.0) for drop = (baseline - rate).max(0.0)
DropSeverity(baseline_win_rate, rate) ==
    LET drop == RMax(RSub(baseline_win_rate, rate), R(0))
    IN  RMax(RMin(RDiv(drop, MAX_DROP), R(1)), R(0))

\* score3: how much larger the average loss is after a loss
LossSizeScore(avg_loss_normally, avg_loss_after_loss) ==
    IF RLt(avg_loss_normally, R(0)) /\ RLt(avg_loss_after_loss, R(0))
          /\ RLt(RAbs(avg_loss_normally), RAbs(avg_loss_after_loss))
    THEN LET ratio == RDiv(RAbs(avg_loss_after_loss), RAbs(avg_loss_normally))
         IN  RMul(RMax(RMin(RSub(ratio, R(1)), R(1)), R(0)), R(2))
    ELSE R(0)

TiltCategory(tilt_score) ==
    IF RLe(tilt_score, R(3)) THEN "Calm & Disciplined"
    ELSE IF RLe(tilt_score, R(7)) THEN "Moderate Tilt Risk"
    ELSE "High Tilt / Severe Tilt"

CoachingLines(tilt_score, recommended_streak) ==
    IF RLe(tilt_score, R(3)) /\ recommended_streak = NoStreak
    THEN <<"similar to your baseline", "You win approximately", "optional for you">>
    ELSE IF RLt(R(3), tilt_score) /\ RLe(tilt_score, R(7))
    THEN <<"degrades after losing trades", "Your win rate drops",
           IF recommended_streak # NoStreak THEN "strongly consider stopping"
           ELSE "no single streak length">>
    ELSE <<"strong signs of emotional tilt", "Your win rate falls",
           "Your average loss becomes larger">>
         \o (IF recommended_streak # NoStreak THEN <<"Recommendation">> ELSE <<>>)
         \o <<"Also consider">>

\* the statistics of ten or more pairs in exit order
TiltStatsOf(pnl_values) ==
    LET total_trades == Len(pnl_values)
        wins == WinsAt(pnl_values, 1..total_trades)
        losses == LossesAt(pnl_values, 1..total_trades)
        baseline_win_rate == RateOf(Cardinality(wins), total_trades, R(0))
        avg_loss_normally == MeanOf(ValuesAt(pnl_values, losses), R(0))
        after_loss == AfterLosses(pnl_values, 1)
        after_loss_losses == LossesAt(pnl_values, after_loss)
        win_rate_after_loss ==
            RateOf(Cardinality(WinsAt(pnl_values, after_loss)), Cardinality(after_loss),
                   baseline_win_rate)
        avg_loss_after_loss == MeanOf(ValuesAt(pnl_values, after_loss_losses), avg_loss_normally)
        prob_loss_after_loss ==
            RateOf(Cardinality(after_loss_losses), Cardinality(after_loss), R(0))
        after_win == AfterWin(pnl_values)
        win_rate_after_win ==
            RateOf(Cardinality(WinsAt(pnl_values, after_win)), Cardinality(after_win),
                   baseline_win_rate)
        after_2_losses == AfterLosses(pnl_values, 2)
        win_rate_after_2_losses ==
            RateOf(Cardinality(WinsAt(pnl_values, after_2_losses)),
                   Cardinality(after_2_losses), baseline_win_rate)
        streak_stats == [k \in 1..4 |-> StreakStatsOf(pnl_values, k)]
        recommended_streak == RecommendedStreak(streak_stats, baseline_win_rate, 1)
        score1 == RMul(DropSeverity(baseline_win_rate, win_rate_after_loss), R(3))
        score2 == RMul(DropSeverity(baseline_win_rate, win_rate_after_2_losses), R(3))
        score3 == LossSizeScore(avg_loss_normally, avg_loss_after_loss)
        score4 == RMul(RMax(RMin(prob_loss_after_loss, R(1)), R(0)), R(2))
        tilt_raw == RAdd(RAdd(score1, score2), RAdd(score3, score4))
        tilt_score == RMax(RMin(tilt_raw, R(10)), R(0))
    IN  [baseline_win_rate |-> baseline_win_rate,
         win_rate_after_loss |-> win_rate_after_loss,
         win_rate_after_win |-> win_rate_after_win,
         win_rate_after_2_losses |-> win_rate_after_2_losses,
         avg_loss_normally |-> avg_loss_normally,
         avg_loss_after_loss |-> avg_loss_after_loss,
         prob_loss_after_loss |-> prob_loss_after_loss,
         tilt_score |-> tilt_score,
         recommended_streak |-> recommended_streak,
         streak_stats |-> streak_stats,
         coaching_lines |-> CoachingLines(tilt_score, recommended_streak),
         tilt_category |-> TiltCategory(tilt_score)]

TooFewPairs_Nine(sorted_trades) == Len(sorted_trades) < MinTiltPairs - 1

\* sorted_trades.len() < 10
TooFewPairs(sorted_trades) == Len(sorted_trades) < MinTiltPairs

TiltOf(rows, pairing_method, start_date, end_date) ==
    Bind(SortByExit(FilterPairs(PairedTradesOf(rows, pairing_method),
                                start_date, end_date)), LAMBDA sorted_trades :
        IF TooFewPairs(sorted_trades) THEN InsufficientData
        ELSE Bind([i \in 1..Len(sorted_trades) |-> sorted_trades[i].net_profit_loss],
                  LAMBDA pnl_values : TiltStatsOf(pnl_values)))

-----------------------------------------------------------------------------
(* get_distribution_concentration *)

\* floor() of an amount, and `as usize` of an amount that is not negative
RFloor(a) == a[1] \div a[2]

\* sorted_pnl: the values in ascending order
RECURSIVE InsertByValue(_, _)
InsertByValue(sorted, x) ==
    IF sorted = <<>> THEN <<x>>
    ELSE IF RLt(x, Head(sorted)) THEN <<x>> \o sorted
         ELSE <<Head(sorted)>> \o InsertByValue(Tail(sorted), x)

RECURSIVE SortByValue(_)
SortByValue(s) ==
    IF s = <<>> THEN <<>>
    ELSE Bind(SortByValue(SubSeq(s, 1, Len(s) - 1)),
              LAMBDA sorted : InsertByValue(sorted, s[Len(s)]))

MedianReturn(sorted_pnl) ==
    IF sorted_pnl = <<>> THEN R(0)
    ELSE IF Len(sorted_pnl) % 2 = 0
         THEN RDiv(RAdd(sorted_pnl[Len(sorted_pnl) \div 2],
                        sorted_pnl[Len(sorted_pnl) \div 2 + 1]), R(2))
         ELSE sorted_pnl[Len(sorted_pnl) \div 2 + 1]

\* the most bins of a histogram
MaxBins == 20

\* 20 bins, or fewer if range is small: one bin for every 10 of range, at least one
NumBins(range) ==
    IF RLt(R(0), range)
    THEN RFloor(RMax(RMin(R(MaxBins), RDiv(range, R(10))), R(1)))
    ELSE 1

BinWidth(range, num_bins) ==
    IF RLt(R(0), range) /\ num_bins > 1 THEN RDiv(range, R(num_bins)) ELSE R(1)

\* the bin that contains 0, less half the number of bins
StartBin(min_pnl, bin_width, num_bins) ==
    RFloor(RDiv(RSub(R(0), min_pnl), bin_width)) - (num_bins \div 2)

\* the filter of the values of a bin: the last bin has no upper end
InBin(pnl, bin_start, bin_end, is_last) ==
    RLe(bin_start, pnl) /\ (is_last \/ RLt(pnl, bin_end))

\* bin i + 1 of the loop `for i in 0..num_bins`
HistogramBin(pnl_values, min_pnl, bin_width, start_bin, num_bins, i) ==
    Bind(RAdd(min_pnl, RMul(R(start_bin + i), bin_width)), LAMBDA bin_start :
    Bind(RAdd(bin_start, bin_width), LAMBDA bin_end :
        LET Is(pnl) == InBin(pnl, bin_start, bin_end, i = num_bins - 1)
            in_bin == SelectSeq(pnl_values, Is)
        IN  [bin_start |-> bin_start, bin_end |-> bin_end,
             count |-> Len(in_bin), total_pnl |-> RSum(in_bin)]))

HistogramOf(pnl_values, sorted_pnl) ==
    LET min_pnl == sorted_pnl[1]
        max_pnl == sorted_pnl[Len(sorted_pnl)]
        range == RSub(max_pnl, min_pnl)
        num_bins == NumBins(range)
        bin_width == BinWidth(range, num_bins)
    IN  IF num_bins > 1
        THEN [n \in 1..num_bins |->
                 HistogramBin(pnl_values, min_pnl, bin_width,
                              StartBin(min_pnl, bin_width, num_bins), num_bins, n - 1)]
        ELSE <<[bin_start |-> min_pnl, bin_end |-> max_pnl,
                count |-> Len(pnl_values), total_pnl |-> RSum(pnl_values)]>>

\* the answer on no pairs in the timeframe
NoDistribution ==
    [histogram |-> <<>>,
     concentration |-> [total_trades |-> 0, profitable_trades_count |-> 0,
                        losing_trades_count |-> 0, mean_return |-> R(0),
                        median_return |-> R(0)]]

\* the histogram and the counts, mean and median of the concentration statistics
\* (the shares of the top trades, the stability score and the insights are texts
\* and rounded percentages derived from the same values and are left out)
DistributionOf(rows, pairing_method, start_date, end_date) ==
    Bind(FilterPairs(PairedTradesOf(rows, pairing_method), start_date, end_date),
         LAMBDA filtered_paired_trades :
        IF filtered_paired_trades = <<>> THEN NoDistribution
        ELSE Bind([i \in 1..Len(filtered_paired_trades) |->
                      filtered_paired_trades[i].net_profit_loss], LAMBDA pnl_values :
             Bind(SortByValue(pnl_values), LAMBDA sorted_pnl :
                LET IsProfit(pnl) == RLt(R(0), pnl)
                    IsLoss(pnl) == RLt(pnl, R(0))
                IN  [histogram |-> HistogramOf(pnl_values, sorted_pnl),
                     concentration |->
                         [total_trades |-> Len(filtered_paired_trades),
                          profitable_trades_count |-> Len(SelectSeq(pnl_values, IsProfit)),
                          losing_trades_count |-> Len(SelectSeq(pnl_values, IsLoss)),
                          mean_return |-> RDiv(RSum(pnl_values), R(Len(pnl_values))),
                          median_return |-> MedianReturn(sorted_pnl)]])))
-----------------------------------------------------------------------------
(* Inputs *)

Symbols == {StockSymbol, OptionSymbol}
Sides == {"Buy", "Sell"}
Quantities == {1, 2}
Prices == {10, 12}
FeeChoices == {R(0), R(3)}
Statuses == {"Filled", "Partially Filled"}
Timestamps == {1, 2}
PairingMethods == {"FIFO", "LIFO"}
DateRanges ==
    {[start_date |-> NoDate, end_date |-> NoDate], [start_date |-> 2, end_date |-> NoDate]}

CsvRows(symbols, quantities, prices, fees, statuses, timestamps) ==
    [symbol : symbols, side : Sides, quantity : quantities, price : prices,
     fees : fees, status : statuses, timestamp : timestamps]

\* rows of the matcher specification: two symbols, no fees
MatcherRows == CsvRows(Symbols, Quantities, Prices, {R(0)}, {"Filled"}, Timestamps)

\* rows of the specification with fees: one option symbol, one price
FeeRows == CsvRows({OptionSymbol}, Quantities, {10}, FeeChoices, {"Filled"}, {1})

\* rows of the grouping specification
GroupRows == CsvRows(Symbols, Quantities, {10}, {R(0)}, {"Filled"}, Timestamps)

\* rows of the query specification: statuses and days vary
QueryRows == CsvRows({StockSymbol}, {1}, Prices, {R(0)}, Statuses, Timestamps)

\* rows of the metrics specification: one symbol, single units, two prices, two days
MetricRows == CsvRows({StockSymbol}, {1}, Prices, {R(0)}, {"Filled"}, Timestamps)

\* the date ranges of the metrics specification: none, from a day on, up to a day
MetricRanges ==
    {[start_date |-> NoDate, end_date |-> NoDate],
     [start_date |-> 2, end_date |-> NoDate],
     [start_date |-> NoDate, end_date |-> 1]}

DayRow(side, quantity, price, day) ==
    [symbol |-> StockSymbol, side |-> side, quantity |-> quantity, price |-> price,
     fees |-> R(0), status |-> "Filled", timestamp |-> day]

\* a file of one day: a unit bought at 10 and sold the same day
RoundTripFile(day, exit_price) ==
    <<DayRow("Buy", 1, 10, day), DayRow("Sell", 1, exit_price, day)>>

\* a file of one day: two units bought at 10 and sold one by one at two prices
ScaleOutFile(day, first_price, second_price) ==
    <<DayRow("Buy", 2, 10, day), DayRow("Sell", 1, first_price, day),
      DayRow("Sell", 1, second_price, day)>>

\* the day after the days imported so far
NextDay(rows) == IF rows = <<>> THEN 1 ELSE rows[Len(rows)].timestamp + 1

\* the exit prices of a day of the tilt specification: a loss, a win and, on the
\* first days, break-even
TiltExitPrices(day) == IF day <= MaxFlatDays THEN {9, 10, 11} ELSE {9, 11}

\* the files of the next day of the tilt specification
TiltFiles(rows) ==
    IF NextDay(rows) > MaxRoundTrips THEN {}
    ELSE {RoundTripFile(NextDay(rows), p) : p \in TiltExitPrices(NextDay(rows))}

\* the exit prices of the streak specification: a loss, break-even and two wins
StreakExitPrices == {9, 10, 11, 12}

\* the files of the next day of the streak specification
StreakFiles(rows) ==
    IF NextDay(rows) > MaxStreakDays THEN {}
    ELSE {RoundTripFile(NextDay(rows), p) : p \in StreakExitPrices}
         \cup {ScaleOutFile(NextDay(rows), pq[1], pq[2]) :
                  pq \in {x \in StreakExitPrices \X StreakExitPrices : x[1] < x[2]}}

\* the date ranges of the tilt specification: none, and from the second day on
TiltRanges ==
    {[start_date |-> NoDate, end_date |-> NoDate], [start_date |-> 2, end_date |-> NoDate]}

NoRange == {[start_date |-> NoDate, end_date |-> NoDate]}

\* rows of the group P&L specification: one symbol, bought at 10 and sold at 10 or 12
GroupPnlRows ==
    {row \in CsvRows({StockSymbol}, Quantities, Prices, {R(0)}, {"Filled"}, Timestamps) :
        row.side = "Buy" => row.price = 10}

\* rows of the pair-order specification: one symbol in full, the other in single
\* units at one price
OrderRows ==
    CsvRows({StockSymbol}, Quantities, Prices, {R(0)}, {"Filled"}, Timestamps)
        \cup CsvRows({OptionSymbol}, {1}, {10}, {R(0)}, {"Filled"}, Timestamps)

\* the orders in which the callers read the table before they call pair_trades
ListOrders == {"ASC", "DESC"}

\* the list a caller passes to pair_trades: ORDER BY timestamp ASC as in
\* get_paired_trades, ORDER BY timestamp DESC as in get_trades_with_pairing
TradeListOf(rows, order) ==
    IF order = "ASC" THEN SelectFilled(rows) ELSE SelectAllInRange(rows, NoDate, NoDate)

\* the exit prices of the days of a file of the recommendation specification: six
\* losses; win and loss in turn; three losses and three wins
BlockPrices == {<<9, 9, 9, 9, 9, 9>>, <<11, 9, 11, 9, 11, 9>>, <<9, 9, 9, 11, 11, 11>>}

\* a file of several days from `day` on: a unit for each day bought at 10 on the
\* first day, and one unit sold each day
BlockFile(day, prices) ==
    <<DayRow("Buy", Len(prices), 10, day)>>
        \o [n \in 1..Len(prices) |-> DayRow("Sell", 1, prices[n], day + n - 1)]

\* the files of the next days of the recommendation specification
BlockFiles(rows) == {BlockFile(NextDay(rows), prices) : prices \in BlockPrices}

\* the exit prices of the curve specification: two losses, break-even and two wins
CurveExitPrices == {8, 9, 10, 11, 12}

\* the files of the next day of the curve specification
CurveFiles(rows) ==
    IF NextDay(rows) > MaxCurveDays THEN {}
    ELSE {RoundTripFile(NextDay(rows), p) : p \in CurveExitPrices}

\* the exit prices of the histogram specification: losses of 40 and 20, break-even
\* and wins of 20 and 40 on a unit bought at 50
HistExitPrices == {10, 30, 50, 70, 90}

\* a file of one day: a unit bought at 50 and sold the same day
HistFile(day, exit_price) ==
    <<DayRow("Buy", 1, 50, day), DayRow("Sell", 1, exit_price, day)>>

\* the files of the next day of the histogram specification
HistFiles(rows) ==
    IF NextDay(rows) > MaxHistDays THEN {}
    ELSE {HistFile(NextDay(rows), p) : p \in HistExitPrices}
-----------------------------------------------------------------------------
(* Commands *)

Init ==
    /\ trades = <<>>
    /\ call = [cmd |-> "start"]
    /\ ret = None

\* import_trades_csv on a standard-format file of one row
import_trades_csv(rows, max) ==
    \E row \in rows :
        /\ Len(trades) < max
        /\ call' = [cmd |-> "import_trades_csv"]
        /\ IF IsDuplicate(trades, row)
           THEN /\ trades' = trades
                /\ ret' = <<>>
           ELSE /\ trades' = Append(trades, [id |-> Len(trades) + 1] @@ row)
                /\ ret' = <<Len(trades) + 1>>

\* the table after the first n rows of a file: a row already in the table is skipped
RECURSIVE ImportRows(_, _, _)
ImportRows(db, file, n) ==
    IF n = 0 THEN db
    ELSE Bind(ImportRows(db, file, n - 1),
              LAMBDA t : IF IsDuplicate(t, file[n]) THEN t
                         ELSE Append(t, [id |-> Len(t) + 1] @@ file[n]))

\* import_trades_csv on a standard-format file of several rows
import_trades_file(files, max) ==
    \E file \in files :
        /\ Len(trades) + Len(file) <= max
        /\ call' = [cmd |-> "import_trades_csv"]
        /\ trades' = ImportRows(trades, file, Len(file))
        /\ ret' = [i \in 1..(Len(trades') - Len(trades)) |-> Len(trades) + i]

\* the matcher as get_symbol_pnl runs it: on the Filled trades, both outputs kept
run_pair_trades ==
    \E pairing_method \in PairingMethods :
        LET m == MatchAll(SelectFilled(trades), use_fifo(pairing_method))
        IN  \E long_order \in Orders(DOMAIN m.long), short_order \in Orders(DOMAIN m.short) :
                /\ call' = [cmd |-> "pair_trades", pairing_method |-> pairing_method]
                /\ ret' = EmitOutput(m, long_order, short_order)
                /\ UNCHANGED trades

\* the matcher on the list of either caller, both outputs kept
run_pair_trades_on(orders) ==
    \E pairing_method \in PairingMethods, order \in orders :
        LET trade_list == TradeListOf(trades, order)
            m == MatchAll(trade_list, use_fifo(pairing_method))
        IN  \E long_order \in Orders(DOMAIN m.long), short_order \in Orders(DOMAIN m.short) :
                /\ call' = [cmd |-> "pair_trades", pairing_method |-> pairing_method,
                            trade_list |-> trade_list]
                /\ ret' = EmitOutput(m, long_order, short_order)
                /\ UNCHANGED trades

get_paired_trades(methods) ==
    \E pairing_method \in methods :
        /\ call' = [cmd |-> "get_paired_trades", pairing_method |-> pairing_method]
        /\ ret' = PairedTradesOf(trades, pairing_method)
        /\ UNCHANGED trades

get_trades_with_pairing(methods, ranges) ==
    \E pairing_method \in methods, range \in ranges :
        /\ call' = [cmd |-> "get_trades_with_pairing", pairing_method |-> pairing_method,
                    start_date |-> range.start_date, end_date |-> range.end_date]
        /\ ret' = TradesWithPairingOf(trades, pairing_method, range.start_date, range.end_date)
        /\ UNCHANGED trades

get_position_groups(methods, ranges) ==
    \E pairing_method \in methods, range \in ranges :
        /\ call' = [cmd |-> "get_position_groups", pairing_method |-> pairing_method,
                    start_date |-> range.start_date, end_date |-> range.end_date]
        /\ ret' = PositionGroupsOf(trades, pairing_method, range.start_date, range.end_date)
        /\ UNCHANGED trades

get_metrics(methods, ranges) ==
    \E pairing_method \in methods, range \in ranges :
        /\ call' = [cmd |-> "get_metrics", pairing_method |-> pairing_method,
                    start_date |-> range.start_date, end_date |-> range.end_date]
        /\ ret' = MetricsOf(trades, pairing_method, range.start_date, range.end_date)
        /\ UNCHANGED trades

get_equity_curve(methods, ranges) ==
    \E pairing_method \in methods, range \in ranges :
        /\ call' = [cmd |-> "get_equity_curve", pairing_method |-> pairing_method,
                    start_date |-> range.start_date, end_date |-> range.end_date]
        /\ ret' = EquityCurveOf(trades, pairing_method, range.start_date, range.end_date)
        /\ UNCHANGED trades

get_tilt_metric(methods, ranges) ==
    \E pairing_method \in methods, range \in ranges :
        /\ call' = [cmd |-> "get_tilt_metric", pairing_method |-> pairing_method,
                    start_date |-> range.start_date, end_date |-> range.end_date]
        /\ ret' = TiltOf(trades, pairing_method, range.start_date, range.end_date)
        /\ UNCHANGED trades

get_distribution_concentration(methods, ranges) ==
    \E pairing_method \in methods, range \in ranges :
        /\ call' = [cmd |-> "get_distribution_concentration",
                    pairing_method |-> pairing_method,
                    start_date |-> range.start_date, end_date |-> range.end_date]
        /\ ret' = DistributionOf(trades, pairing_method, range.start_date, range.end_date)
        /\ UNCHANGED trades

ImportMatcherRow == import_trades_csv(MatcherRows, MaxTrades)
ImportFeeRow == import_trades_csv(FeeRows, MaxFeeTrades)
ImportGroupRow == import_trades_csv(GroupRows, MaxTrades)
ImportQueryRow == import_trades_csv(QueryRows, MaxTrades)

NextMatcher == ImportMatcherRow \/ run_pair_trades
SpecMatcher == Init /\ [][NextMatcher]_vars

NextFees == ImportFeeRow \/ run_pair_trades
SpecFees == Init /\ [][NextFees]_vars

NextGroups == ImportGroupRow \/ get_position_groups({"FIFO"}, DateRanges)
SpecGroups == Init /\ [][NextGroups]_vars

ImportMetricRow == import_trades_csv(MetricRows, MaxMetricTrades)

NextMetrics ==
    \/ ImportMetricRow
    \/ get_metrics(PairingMethods, MetricRanges)
    \/ get_equity_curve({"FIFO"}, MetricRanges)
SpecMetrics == Init /\ [][NextMetrics]_vars

ImportTiltFile == import_trades_file(TiltFiles(trades), 2 * MaxRoundTrips)

NextTilt == ImportTiltFile \/ get_tilt_metric({"FIFO"}, TiltRanges)
SpecTilt == Init /\ [][NextTilt]_vars

ImportStreakFile == import_trades_file(StreakFiles(trades), 3 * MaxStreakDays)

NextStreaks ==
    \/ ImportStreakFile
    \/ get_metrics(PairingMethods, NoRange)
    \/ get_equity_curve({"FIFO"}, MetricRanges)
SpecStreaks == Init /\ [][NextStreaks]_vars

ImportGroupPnlRow == import_trades_csv(GroupPnlRows, MaxGroupTrades)

NextGroupPnl == ImportGroupPnlRow \/ get_position_groups(PairingMethods, DateRanges)
SpecGroupPnl == Init /\ [][NextGroupPnl]_vars

ImportBlockFile == import_trades_file(BlockFiles(trades), 7 * MaxBlocks)

NextCoach == ImportBlockFile \/ get_tilt_metric({"FIFO"}, NoRange)
SpecCoach == Init /\ [][NextCoach]_vars

ImportOrderRow == import_trades_csv(OrderRows, MaxTrades)

NextOrder == ImportOrderRow \/ run_pair_trades_on(ListOrders)
SpecOrder == Init /\ [][NextOrder]_vars

ImportCurveFile == import_trades_file(CurveFiles(trades), 2 * MaxCurveDays)

NextCurve == ImportCurveFile \/ get_equity_curve({"FIFO"}, MetricRanges)
SpecCurve == Init /\ [][NextCurve]_vars

ImportHistFile == import_trades_file(HistFiles(trades), 2 * MaxHistDays)

NextHist == ImportHistFile \/ get_distribution_concentration({"FIFO"}, MetricRanges)
SpecHist == Init /\ [][NextHist]_vars

Next ==
    \/ ImportQueryRow
    \/ get_paired_trades({None, "LIFO"})
    \/ get_trades_with_pairing({None}, DateRanges)
    \/ get_position_groups(PairingMethods, DateRanges)
    \/ get_metrics(PairingMethods, DateRanges)
Spec == Init /\ [][Next]_vars

-----------------------------------------------------------------------------
(* Notions the properties are stated in *)

RECURSIVE ISum(_)
ISum(s) == IF s = <<>> THEN 0 ELSE Head(s) + ISum(Tail(s))

\* the list the matcher was given by run_pair_trades
MatcherInput == SelectFilled(trades)

RowOf(id) == trades[id]

SideOf(id) == to_uppercase(RowOf(id).side)

QtyOf(records) == [i \in 1..Len(records) |-> records[i].quantity]

PairsWith(pairs, symbol, side) ==
    LET Is(p) == p.symbol = symbol
                 /\ (SideOf(p.entry_trade_id) = side \/ SideOf(p.exit_trade_id) = side)
    IN  SelectSeq(pairs, Is)

TradesWith(trade_list, symbol, side) ==
    LET Is(t) == t.symbol = symbol /\ to_uppercase(t.side) = side
    IN  SelectSeq(trade_list, Is)

MatcherRan == call.cmd = "pair_trades"

-----------------------------------------------------------------------------
(* C1: quantity conservation.  After pair_trades, for every symbol and     *)
(* every side, the quantities of the pairs a trade of that side takes part *)
(* in plus the quantities of the open trades of that side add up to the    *)
(* input quantity of that symbol on that side.                             *)

C1_QuantityConservation ==
    MatcherRan =>
        \A symbol \in Symbols, side \in {"BUY", "SELL"} :
            ISum(QtyOf(PairsWith(ret.pairs, symbol, side)))
              + ISum(QtyOf(TradesWith(ret.open_trades, symbol, side)))
            = ISum(QtyOf(TradesWith(MatcherInput, symbol, side)))

\* a trade closed one lot in part and a lot of another symbol stays open
C1_Witness ==
    /\ MatcherRan
    /\ \E i \in 1..Len(ret.pairs) :
          /\ ret.pairs[i].quantity < RowOf(ret.pairs[i].entry_trade_id).quantity
          /\ \E j \in 1..Len(ret.open_trades) :
                ret.open_trades[j].id = ret.pairs[i].entry_trade_id
    /\ \E j \in 1..Len(ret.open_trades) :
          \A i \in 1..Len(ret.pairs) : ret.open_trades[j].symbol # ret.pairs[i].symbol

-----------------------------------------------------------------------------
(* C2: fee conservation.  After pair_trades, for every input trade that    *)
(* has no open remainder, the entry fees of the pairs it is the entry of   *)
(* plus the exit fees of the pairs it is the exit of add up to the fee of  *)
(* the trade, also when its lot was closed in several steps.               *)

EntryFeesOf(pairs, id) ==
    LET Is(p) == p.entry_trade_id = id
        mine == SelectSeq(pairs, Is)
    IN  RSum([i \in 1..Len(mine) |-> mine[i].entry_fees])

ExitFeesOf(pairs, id) ==
    LET Is(p) == p.exit_trade_id = id
        mine == SelectSeq(pairs, Is)
    IN  RSum([i \in 1..Len(mine) |-> mine[i].exit_fees])

FullyClosed(id) == id \notin Ids(ret.open_trades)

C2_FeeConservation ==
    MatcherRan =>
        \A i \in 1..Len(MatcherInput) :
            FullyClosed(MatcherInput[i].id) =>
                RAdd(EntryFeesOf(ret.pairs, MatcherInput[i].id),
                     ExitFeesOf(ret.pairs, MatcherInput[i].id))
                = MatcherInput[i].fees

-----------------------------------------------------------------------------
(* C3: policy independence.  For every symbol that pair_trades leaves with *)
(* no open trade, the net P&L of the symbol's pairs adds up to the same    *)
(* total under FIFO and under LIFO.                                        *)

NetTotal(pairs, symbol) ==
    LET Is(p) == p.symbol = symbol IN RSum(NetOf(SelectSeq(pairs, Is)))

HasOpen(symbol) == \E j \in 1..Len(ret.open_trades) : ret.open_trades[j].symbol = symbol

OtherPolicyPairs ==
    IF use_fifo(call.pairing_method) THEN pair_trades_lifo(MatcherInput)
    ELSE pair_trades_fifo(MatcherInput)

C3_PolicyIndependence ==
    MatcherRan =>
        \A symbol \in Symbols :
            ~HasOpen(symbol) => NetTotal(ret.pairs, symbol) = NetTotal(OtherPolicyPairs, symbol)

-----------------------------------------------------------------------------
(* C4: determinism.  A second run of pair_trades on the same trades with   *)
(* the same policy returns what the first run returned: the same pairs and *)
(* the same open trades in the same order.                                 *)

C4_Determinism ==
    [][(MatcherRan /\ call' = call /\ trades' = trades) => ret' = ret]_vars

-----------------------------------------------------------------------------
(* C5: in every pair pair_trades returns, net_profit_loss is               *)
(* gross_profit_loss - entry_fees - exit_fees on the stored values, for    *)
(* option symbols and for stock symbols.                                   *)

C5_NetIsGrossMinusFees ==
    MatcherRan =>
        \A i \in 1..Len(ret.pairs) :
            ret.pairs[i].net_profit_loss
            = RSub(RSub(ret.pairs[i].gross_profit_loss, ret.pairs[i].entry_fees),
                   ret.pairs[i].exit_fees)

-----------------------------------------------------------------------------
(* C6: options multiplier.  In every pair of a symbol that               *)
(* is_options_symbol classifies as an option (SPY251218C00679000 is one)  *)
(* gross_profit_loss is the per-unit price difference times the closed    *)
(* quantity times 100, and with zero fees net_profit_loss is the same     *)
(* amount; in every pair of any other symbol (AAPL is one) the factor is  *)
(* 1.                                                                      *)

\* the price difference per unit: exit over entry for a long lot, entry over exit for a short
PriceDifference(pair) ==
    IF SideOf(pair.entry_trade_id) = "BUY" THEN pair.exit_price - pair.entry_price
    ELSE pair.entry_price - pair.exit_price

ZeroFees(pair) == pair.entry_fees = R(0) /\ pair.exit_fees = R(0)

ScaledDifference(pair, multiplier) == R(PriceDifference(pair) * pair.quantity * multiplier)

C6_OptionsMultiplier ==
    /\ is_options_symbol(OptionSymbol)
    /\ ~is_options_symbol(StockSymbol)
    /\ MatcherRan =>
          \A i \in 1..Len(ret.pairs) :
              LET pair == ret.pairs[i]
                  multiplier == IF is_options_symbol(pair.symbol) THEN 100 ELSE 1
              IN  /\ pair.gross_profit_loss = ScaledDifference(pair, multiplier)
                  /\ ZeroFees(pair) => pair.net_profit_loss = ScaledDifference(pair, multiplier)

\* an option lot of two contracts closed two price units higher beside an open
\* stock lot
C6_Witness ==
    /\ MatcherRan
    /\ \E i \in 1..Len(ret.pairs) :
          /\ ret.pairs[i].symbol = OptionSymbol
          /\ ZeroFees(ret.pairs[i])
          /\ ret.pairs[i].gross_profit_loss = R(400)
          /\ ret.pairs[i].net_profit_loss = R(400)
    /\ \E j \in 1..Len(ret.open_trades) : ret.open_trades[j].symbol = StockSymbol

-----------------------------------------------------------------------------
(* C7: grouping is a partition.  get_position_groups puts every trade of  *)
(* the Filled list it read into the position_trades of exactly one group, *)
(* once, and all trades of a group have the symbol of its entry trade.    *)

GroupsRan == call.cmd = "get_position_groups"

\* the list get_position_groups read for its arguments
GrouperInput == SelectFilledInRange(trades, call.start_date, call.end_date)

\* the places <<group, index>> at which the groups hold the trade id
PlacesOf(position_groups, id) ==
    {pl \in (1..Len(position_groups)) \X (1..MaxTrades) :
        /\ pl[2] <= Len(position_groups[pl[1]].position_trades)
        /\ position_groups[pl[1]].position_trades[pl[2]].id = id}

C7_GroupingIsPartition ==
    GroupsRan =>
        /\ \A i \in 1..Len(GrouperInput) :
              Cardinality(PlacesOf(ret, GrouperInput[i].id)) = 1
        /\ \A g \in 1..Len(ret) :
              \A k \in 1..Len(ret[g].position_trades) :
                  /\ ret[g].position_trades[k].symbol = ret[g].entry_trade.symbol
                  /\ ret[g].position_trades[k].id \in Ids(GrouperInput)

\* three trades of one symbol: a position of two trades that closed, and the third
\* trade in a group of its own
C7_Witness ==
    /\ GroupsRan
    /\ Len(GrouperInput) = 3
    /\ \E g, h \in 1..Len(ret) :
          /\ g # h
          /\ ret[g].entry_trade.symbol = ret[h].entry_trade.symbol
          /\ Len(ret[g].position_trades) = 2
          /\ ret[g].final_quantity = 0
          /\ Len(ret[h].position_trades) = 1

-----------------------------------------------------------------------------
(* C8: round trips.  When the matcher's list is one symbol, opened by its *)
(* first trade with quantity q and closed by the later trades, all of the *)
(* opposite side and of quantities that add up to q, with no fees, then   *)
(* pair_trades returns one pair per closing trade, each with the opening  *)
(* trade's price as entry_price and the closing trade's quantity, returns *)
(* no open trade, and the net P&L adds up to the sum of (exit - entry) x  *)
(* quantity for a long position and of (entry - exit) x quantity for a    *)
(* short one.                                                              *)

RoundTrip ==
    /\ MatcherRan
    /\ Len(MatcherInput) >= 2
    /\ \A i \in 2..Len(MatcherInput) :
          /\ MatcherInput[i].symbol = MatcherInput[1].symbol
          /\ to_uppercase(MatcherInput[i].side) # to_uppercase(MatcherInput[1].side)
          /\ MatcherInput[i].timestamp >= MatcherInput[1].timestamp
    /\ ISum(QtyOf(Tail(MatcherInput))) = MatcherInput[1].quantity
    /\ \A i \in 1..Len(MatcherInput) : MatcherInput[i].fees = R(0)

\* one pair per closing trade, in their order, against the opening trade
OnePairPerClosingTrade ==
    /\ Len(ret.pairs) = Len(MatcherInput) - 1
    /\ \A i \in 1..Len(ret.pairs) :
          /\ ret.pairs[i].entry_trade_id = MatcherInput[1].id
          /\ ret.pairs[i].exit_trade_id = MatcherInput[i + 1].id
          /\ ret.pairs[i].entry_price = MatcherInput[1].price
          /\ ret.pairs[i].quantity = MatcherInput[i + 1].quantity
    /\ ret.open_trades = <<>>

\* the sum over the closing trades of the price difference times the quantity
RECURSIVE PriceDifferenceTotal(_, _)
PriceDifferenceTotal(opening, closing) ==
    IF closing = <<>> THEN 0
    ELSE (IF to_uppercase(opening.side) = "BUY"
          THEN (Head(closing).price - opening.price) * Head(closing).quantity
          ELSE (opening.price - Head(closing).price) * Head(closing).quantity)
         + PriceDifferenceTotal(opening, Tail(closing))

\* the claim as stated: the total is the sum of the price differences times the
\* quantities, whatever the symbol
C8_RoundTripAsStated ==
    RoundTrip =>
        /\ OnePairPerClosingTrade
        /\ RSum(NetOf(ret.pairs))
           = R(PriceDifferenceTotal(MatcherInput[1], Tail(MatcherInput)))

\* C8 as the program has it: the total is the sum of the price differences times
\* the quantities, times 100 when the symbol is an option symbol
C8_RoundTrip ==
    RoundTrip =>
        /\ OnePairPerClosingTrade
        /\ RSum(NetOf(ret.pairs))
           = R(PriceDifferenceTotal(MatcherInput[1], Tail(MatcherInput))
               * (IF is_options_symbol(MatcherInput[1].symbol) THEN 100 ELSE 1))

\* a short position of two closed by two buys at different prices on a later day
C8_Witness ==
    /\ RoundTrip
    /\ Len(MatcherInput) = 3
    /\ to_uppercase(MatcherInput[1].side) = "SELL"
    /\ MatcherInput[2].timestamp > MatcherInput[1].timestamp
    /\ MatcherInput[2].price # MatcherInput[3].price
    /\ Len(ret.pairs) = 2

-----------------------------------------------------------------------------
(* C9: only Filled trades are matched.  No pair that get_paired_trades or *)
(* get_trades_with_pairing returns has an entry trade or an exit trade    *)
(* whose status is other than Filled or FILLED.                            *)

BothFilled(pair) ==
    /\ IsFilled(RowOf(pair.entry_trade_id).status)
    /\ IsFilled(RowOf(pair.exit_trade_id).status)

AllBothFilled(pairs) == \A i \in 1..Len(pairs) : BothFilled(pairs[i])

C9_OnlyFilledMatched ==
    /\ call.cmd = "get_paired_trades" => AllBothFilled(ret)
    /\ call.cmd = "get_trades_with_pairing" =>
          \A i \in 1..Len(ret) :
              AllBothFilled(ret[i].entry_pairs) /\ AllBothFilled(ret[i].exit_pairs)

-----------------------------------------------------------------------------
(* C10: every query recomputes from the full trade set.  With a date      *)
(* range, the position groups get_position_groups returns, and the groups *)
(* get_metrics takes its largest win and largest loss from, come from the *)
(* matching of the whole Filled history: the total_pnl of a group is the  *)
(* net P&L of the whole history's pairs of its trades, and no trade that  *)
(* closes a lot opened before the range stands as the entry of a group.   *)

\* the pairs of the whole Filled history under the method of the call
FullHistoryPairs == PairedTradesOf(trades, call.pairing_method)

\* the trade is the exit of a pair whose entry lies outside the range of the call
ClosesEarlierLot(id) ==
    \E i \in 1..Len(FullHistoryPairs) :
        /\ FullHistoryPairs[i].exit_trade_id = id
        /\ ~InDateFilter(FullHistoryPairs[i].entry_timestamp, call.start_date, call.end_date)

C10_FullHistoryRecomputed ==
    /\ GroupsRan =>
          \A g \in 1..Len(ret) :
              /\ ~ClosesEarlierLot(ret[g].entry_trade.id)
              /\ ret[g].total_pnl = PositionPnl(FullHistoryPairs, ret[g].position_trades)
    /\ call.cmd = "get_metrics" =>
          /\ ret.largest_win_group_id # NoId => ~ClosesEarlierLot(ret.largest_win_group_id)
          /\ ret.largest_loss_group_id # NoId => ~ClosesEarlierLot(ret.largest_loss_group_id)

-----------------------------------------------------------------------------
(* C11: the date range is inclusive at both ends.  With start_date and    *)
(* end_date given as dates, every pair of the whole history whose exit    *)
(* day is the start date, the end date or a day between them is kept:     *)
(* get_metrics counts it in total_trades and get_equity_curve has a point *)
(* for its exit day.                                                       *)

MetricsRan == call.cmd = "get_metrics"

EquityRan == call.cmd = "get_equity_curve"

\* the calendar day of the pair's exit is from start_date to end_date, both included
ExitDayInRange(pair, start_date, end_date) ==
    /\ (start_date # NoDate => DateOf(pair.exit_timestamp) >= start_date)
    /\ (end_date # NoDate => DateOf(pair.exit_timestamp) <= end_date)

\* the pairs of the whole history with the exit day in the range of the call
PairsOfRange ==
    LET Keep(p) == ExitDayInRange(p, call.start_date, call.end_date)
    IN  SelectSeq(FullHistoryPairs, Keep)

\* C11: the date range is inclusive at both ends: get_metrics counts every pair
\* whose exit day is from start_date to end_date, the two days included, and
\* get_equity_curve has a point for the exit day of every such pair.
C11_DateRangeInclusive ==
    /\ MetricsRan => ret.total_trades = Len(PairsOfRange)
    /\ EquityRan =>
          \A i \in 1..Len(PairsOfRange) :
              \E k \in 1..Len(ret.equity_points) :
                  ret.equity_points[k].date = DateOf(PairsOfRange[i].exit_timestamp)

-----------------------------------------------------------------------------
(* Tilt analysis below and from ten pairs *)

TiltRan == call.cmd = "get_tilt_metric"

\* C12: tilt analysis of fewer than 10 pairs of the date range returns the category
\* "Insufficient Data", no streak_stats, no recommended_streak and 0 in every numeric
\* field; of 10 pairs or more it never returns that category and streak_stats has
\* the four entries k = 1..4.
C12_TiltInsufficientData ==
    TiltRan =>
        IF Len(PairsOfRange) < 10
        THEN /\ ret.tilt_category = "Insufficient Data"
             /\ ret.streak_stats = <<>>
             /\ ret.recommended_streak = NoStreak
             /\ \A field \in {"baseline_win_rate", "win_rate_after_loss", "win_rate_after_win",
                              "win_rate_after_2_losses", "avg_loss_normally",
                              "avg_loss_after_loss", "prob_loss_after_loss", "tilt_score"} :
                    ret[field] = R(0)
        ELSE /\ ret.tilt_category # "Insufficient Data"
             /\ Len(ret.streak_stats) = 4
             /\ \A k \in 1..4 : ret.streak_stats[k].k = k

\* tilt analysis has run on the nine pairs the date range leaves of ten, a winner
\* and a loser among them
C12_Witness ==
    /\ TiltRan
    /\ Len(FullHistoryPairs) = 10
    /\ Len(PairsOfRange) = 9
    /\ \E i, j \in 1..9 : /\ RLt(R(0), PairsOfRange[i].net_profit_loss)
                          /\ RLt(PairsOfRange[j].net_profit_loss, R(0))
    /\ ret.tilt_category = "Insufficient Data"

\* tilt analysis has run on ten pairs
C12_WitnessTenPairs ==
    /\ TiltRan
    /\ Len(PairsOfRange) = 10
    /\ Len(ret.streak_stats) = 4

-----------------------------------------------------------------------------
(* Ratios of get_metrics without losing pairs *)

\* the pairs get_metrics has scanned: those its date filter keeps
MetricPairs == FilterPairs(FullHistoryPairs, call.start_date, call.end_date)

Winners(pairs) == SelectSeq(pairs, LAMBDA p : RLt(R(0), p.net_profit_loss))

Losers(pairs) == SelectSeq(pairs, LAMBDA p : RLt(p.net_profit_loss, R(0)))

\* C13: get_metrics never outputs an infinite ratio: profit_factor is the total of
\* the winning pairs over the magnitude of the total of the losing pairs when a
\* pair loses, and 0 when none does; risk_reward_ratio is 0 when average_loss is 0.
C13_NoInfiniteRatio ==
    MetricsRan =>
        /\ ret.profit_factor # Inf
        /\ ret.risk_reward_ratio # Inf
        /\ IF Losers(MetricPairs) # <<>>
           THEN ret.profit_factor =
                    RDiv(RSum(NetOf(Winners(MetricPairs))),
                         RAbs(RSum(NetOf(Losers(MetricPairs)))))
           ELSE ret.profit_factor = R(0)
        /\ ret.average_loss = R(0) => ret.risk_reward_ratio = R(0)

\* get_metrics has run on pairs that win and none that loses
C13_Witness ==
    /\ MetricsRan
    /\ Winners(MetricPairs) # <<>>
    /\ Losers(MetricPairs) = <<>>
    /\ ret.average_profit # R(0)
    /\ ret.profit_factor = R(0)

-----------------------------------------------------------------------------
(* Best and worst day of get_metrics under the method of the call *)

\* the days of the call: those of the Filled trades, within the date range
MethodDays ==
    {d \in DaysOf(trades, FullHistoryPairs) : DayInRange(d, call.start_date, call.end_date)}

\* the net P&L of a day from the pairs of the method of the call
MethodDayPnl(day) == DayPnl(FullHistoryPairs, day)

\* C14: best_day, worst_day and trades_per_day of get_metrics come from the daily
\* sums of net P&L of the pairs of the pairing_method of the call: best_day is the
\* largest and worst_day the smallest daily sum of those pairs.
C14_DaysOfSelectedPolicy ==
    MetricsRan /\ MethodDays # {} =>
        /\ \E d \in MethodDays : ret.best_day = MethodDayPnl(d)
        /\ \A d \in MethodDays : RLe(MethodDayPnl(d), ret.best_day)
        /\ \E d \in MethodDays : ret.worst_day = MethodDayPnl(d)
        /\ \A d \in MethodDays : RLe(ret.worst_day, MethodDayPnl(d))
        /\ ret.trades_per_day = RDiv(R(ret.total_trades), R(Cardinality(MethodDays)))

-----------------------------------------------------------------------------
(* Gross P&L of a pair *)

IsLongPair(pair) == SideOf(pair.entry_trade_id) = "BUY"

IsShortPair(pair) == SideOf(pair.entry_trade_id) = "SELL"

\* entry_price is the price of the opening trade and exit_price that of the closing trade
PricesOfTrades(pair) ==
    /\ pair.entry_price = RowOf(pair.entry_trade_id).price
    /\ pair.exit_price = RowOf(pair.exit_trade_id).price

Multiplier(pair) == IF is_options_symbol(pair.symbol) THEN 100 ELSE 1

\* the claim as stated: exit price less entry price, for a long and for a short pair
C15_GrossFormulaAsStated ==
    MatcherRan =>
        \A i \in 1..Len(ret.pairs) :
            LET pair == ret.pairs[i]
            IN  /\ PricesOfTrades(pair)
                /\ pair.gross_profit_loss =
                       R((pair.exit_price - pair.entry_price) * pair.quantity * Multiplier(pair))

\* C15 as the program has it: in every pair of pair_trades entry_price is the price
\* of the trade that opened the lot and exit_price the price of the closing trade;
\* gross_profit_loss is (exit_price - entry_price) x quantity x multiplier for a
\* long pair and (entry_price - exit_price) x quantity x multiplier for a short pair.
C15_GrossFormula ==
    MatcherRan =>
        \A i \in 1..Len(ret.pairs) :
            LET pair == ret.pairs[i]
            IN  /\ PricesOfTrades(pair)
                /\ IsLongPair(pair) \/ IsShortPair(pair)
                /\ IsLongPair(pair) =>
                       pair.gross_profit_loss =
                           R((pair.exit_price - pair.entry_price) * pair.quantity
                             * Multiplier(pair))
                /\ IsShortPair(pair) =>
                       pair.gross_profit_loss =
                           R((pair.entry_price - pair.exit_price) * pair.quantity
                             * Multiplier(pair))

\* a short lot sold at 12 and bought back at 10: a gain of 2 a unit
C15_Witness ==
    /\ MatcherRan
    /\ \E i \in 1..Len(ret.pairs) :
          /\ IsShortPair(ret.pairs[i])
          /\ ret.pairs[i].entry_price = 12
          /\ ret.pairs[i].exit_price = 10
          /\ ret.pairs[i].gross_profit_loss = R(2 * ret.pairs[i].quantity * Multiplier(ret.pairs[i]))

-----------------------------------------------------------------------------
(* Lot selection, trade by trade *)

\* the matcher before and after the n-th trade of its input
BeforeTrade(n) == MatchPrefix(MatcherInput, n - 1, use_fifo(call.pairing_method))

AfterTrade(n) == MatchPrefix(MatcherInput, n, use_fifo(call.pairing_method))

LotsOf(map, symbol) == IF symbol \in DOMAIN map THEN map[symbol] ELSE <<>>

\* the lots of the trade's symbol on the other side, and on its own side
OppositeLots(m, trade) ==
    IF to_uppercase(trade.side) = "BUY" THEN LotsOf(m.short, trade.symbol)
    ELSE LotsOf(m.long, trade.symbol)

OwnLots(m, trade) ==
    IF to_uppercase(trade.side) = "BUY" THEN LotsOf(m.long, trade.symbol)
    ELSE LotsOf(m.short, trade.symbol)

\* the pairs the n-th trade has added
NewPairs(n) ==
    SubSeq(AfterTrade(n).pairs, Len(BeforeTrade(n).pairs) + 1, Len(AfterTrade(n).pairs))

\* the place of a trade in the input of the matcher: the order of opening
PlaceOf(id) == CHOOSE i \in 1..Len(MatcherInput) : MatcherInput[i].id = id

\* the quantity of a lot that the first k of the pairs have closed
ClosedOf(pairs, k, id) ==
    ISum(QtyOf(SelectSeq(SubSeq(pairs, 1, k), LAMBDA p : p.entry_trade_id = id)))

\* the ids of the lots not yet used up by the first k of the pairs
RemainingIds(lots, pairs, k) ==
    {lots[i].id : i \in {j \in 1..Len(lots) : lots[j].qty > ClosedOf(pairs, k, lots[j].id)}}

\* the k-th pair takes the lot opened earliest under FIFO, latest under LIFO
TakesByPolicy(lots, pairs, k) ==
    LET remaining == RemainingIds(lots, pairs, k - 1)
        id == pairs[k].entry_trade_id
    IN  /\ id \in remaining
        /\ IF use_fifo(call.pairing_method)
           THEN \A other \in remaining : PlaceOf(id) <= PlaceOf(other)
           ELSE \A other \in remaining : PlaceOf(id) >= PlaceOf(other)

\* the lots left are the lots with quantity left, reduced by what was closed
LeftAfter(lots, pairs) ==
    LET Left(lot) == lot.qty > ClosedOf(pairs, Len(pairs), lot.id)
        kept == SelectSeq(lots, Left)
    IN  [i \in 1..Len(kept) |-> kept[i].qty - ClosedOf(pairs, Len(pairs), kept[i].id)]

LotSelection(n) ==
    LET trade == MatcherInput[n]
        opposite == OppositeLots(BeforeTrade(n), trade)
        own == OwnLots(BeforeTrade(n), trade)
        own_after == OwnLots(AfterTrade(n), trade)
        pairs == NewPairs(n)
        closed == ISum(QtyOf(pairs))
    IN  /\ closed = Min(trade.quantity, ISum([i \in 1..Len(opposite) |-> opposite[i].qty]))
        /\ \A k \in 1..Len(pairs) :
              /\ pairs[k].exit_trade_id = trade.id
              /\ TakesByPolicy(opposite, pairs, k)
        /\ [i \in 1..Len(OppositeLots(AfterTrade(n), trade)) |->
               OppositeLots(AfterTrade(n), trade)[i].qty] = LeftAfter(opposite, pairs)
        /\ IF closed < trade.quantity
           THEN /\ OppositeLots(AfterTrade(n), trade) = <<>>
                /\ Len(own_after) = Len(own) + 1
                /\ SubSeq(own_after, 1, Len(own)) = own
                /\ own_after[Len(own_after)].id = trade.id
                /\ own_after[Len(own_after)].qty = trade.quantity - closed
           ELSE own_after = own

\* C16: a Buy closes the symbol's short lots before it opens a long lot and a Sell
\* closes long lots before it opens a short lot; each pair of the closing trade
\* takes, among the lots that remain, the one opened earliest under FIFO and the
\* one opened latest under LIFO; a lot is removed exactly when nothing of it is
\* left; only what is left of the trade after all opposite lots are used up
\* becomes a new lot.
C16_LotSelectionOrder ==
    MatcherRan => \A n \in 1..Len(MatcherInput) : LotSelection(n)

\* under LIFO a closing trade of two has taken the later of two lots of one and
\* then the earlier
C16_Witness ==
    /\ MatcherRan
    /\ ~use_fifo(call.pairing_method)
    /\ Len(MatcherInput) = 3
    /\ Len(OppositeLots(BeforeTrade(3), MatcherInput[3])) = 2
    /\ Len(NewPairs(3)) = 2
    /\ NewPairs(3)[1].entry_trade_id = MatcherInput[2].id
    /\ NewPairs(3)[2].entry_trade_id = MatcherInput[1].id

-----------------------------------------------------------------------------
(* Position lifecycle boundaries *)

\* the trades of a symbol in the list get_position_groups read, in its order
SymbolTrades(symbol) == SelectSeq(GrouperInput, LAMBDA t : t.symbol = symbol)

\* +qty for BUY, -qty for SELL, summed
SignedSum(trade_list) ==
    ISum([i \in 1..Len(trade_list) |->
             IF to_uppercase(trade_list[i].side) = "BUY" THEN trade_list[i].quantity
             ELSE -trade_list[i].quantity])

\* the group is the run from..to of the trades of its symbol
IsRun(group, from, to) ==
    LET run == SymbolTrades(group.entry_trade.symbol)
    IN  /\ to <= Len(run)
        /\ to - from + 1 = Len(group.position_trades)
        /\ group.position_trades = SubSeq(run, from, to)
        /\ group.entry_trade = run[from]
        \* every earlier trade of the symbol is claimed by another group
        /\ \A j \in 1..(from - 1) :
              \E other \in 1..Len(ret) :
                  /\ ret[other] # group
                  /\ \E k \in 1..Len(ret[other].position_trades) :
                        ret[other].position_trades[k] = run[j]
        \* a group that is not flat at its end takes all later trades of the symbol
        /\ group.final_quantity # 0 => to = Len(run)

LifecycleOf(group) ==
    /\ \E from \in 1..Len(SymbolTrades(group.entry_trade.symbol)) :
          IsRun(group, from, from + Len(group.position_trades) - 1)
    /\ group.final_quantity = SignedSum(group.position_trades)
    /\ \A k \in 1..(Len(group.position_trades) - 1) :
          SignedSum(SubSeq(group.position_trades, 1, k)) # 0

\* C17: each group of get_position_groups is a contiguous run of its symbol's
\* trades in timestamp order that starts at the first unclaimed trade; its
\* final_quantity is the signed sum of its trades; no proper prefix of it is flat;
\* a group that is not flat takes all later trades of the symbol, so per symbol at
\* most one group has a non-zero final_quantity, and no group starts after it.
C17_LifecycleBoundaries ==
    GroupsRan =>
        /\ \A g \in 1..Len(ret) : LifecycleOf(ret[g])
        /\ \A g, h \in 1..Len(ret) :
              /\ ret[g].entry_trade.symbol = ret[h].entry_trade.symbol
              /\ ret[g].final_quantity # 0
              /\ g # h
              => /\ ret[h].final_quantity = 0
                 /\ TsLe(ret[h].entry_trade.timestamp, ret[g].entry_trade.timestamp)

\* a symbol with a closed position and, after it, a position that stays open
C17_Witness ==
    /\ GroupsRan
    /\ \E g, h \in 1..Len(ret) :
          /\ ret[g].entry_trade.symbol = ret[h].entry_trade.symbol
          /\ ret[g].final_quantity # 0
          /\ ret[h].final_quantity = 0
          /\ Len(ret[h].position_trades) = 2

-----------------------------------------------------------------------------
(* Largest win and largest loss of get_metrics *)

\* the position groups of the arguments of the call
GroupsOfCall ==
    PositionGroupsOf(trades, call.pairing_method, call.start_date, call.end_date)

WinningGroups == {g \in 1..Len(GroupsOfCall) : RLt(R(0), GroupsOfCall[g].total_pnl)}

LosingGroups == {g \in 1..Len(GroupsOfCall) : RLt(GroupsOfCall[g].total_pnl, R(0))}

\* C18: largest_win of get_metrics is the largest total_pnl of the position groups
\* with a positive total (0 if there is none), largest_loss the most negative
\* total_pnl of the groups with a negative total (0 if there is none), and the two
\* group ids are the ids of the entry trades of those groups; a position of several
\* pairs counts once, with the sum of its pairs.
C18_LargestFromGroups ==
    MetricsRan =>
        /\ IF WinningGroups = {}
           THEN ret.largest_win = R(0) /\ ret.largest_win_group_id = NoId
           ELSE /\ \E g \in WinningGroups :
                      /\ ret.largest_win = GroupsOfCall[g].total_pnl
                      /\ ret.largest_win_group_id = GroupsOfCall[g].entry_trade.id
                /\ \A g \in WinningGroups : RLe(GroupsOfCall[g].total_pnl, ret.largest_win)
        /\ IF LosingGroups = {}
           THEN ret.largest_loss = R(0) /\ ret.largest_loss_group_id = NoId
           ELSE /\ \E g \in LosingGroups :
                      /\ ret.largest_loss = GroupsOfCall[g].total_pnl
                      /\ ret.largest_loss_group_id = GroupsOfCall[g].entry_trade.id
                /\ \A g \in LosingGroups : RLe(ret.largest_loss, GroupsOfCall[g].total_pnl)

\* a position of two pairs that win 1 and 2 beside a position of one pair that wins
\* 2: the largest win is 3, the total of the two pairs
C18_Witness ==
    /\ MetricsRan
    /\ Cardinality(WinningGroups) = 2
    /\ \E g, h \in WinningGroups :
          /\ Len(GroupsOfCall[g].position_trades) = 3
          /\ GroupsOfCall[g].total_pnl = R(3)
          /\ GroupsOfCall[h].total_pnl = R(2)
          /\ TsLe(GroupsOfCall[g].entry_trade.timestamp, GroupsOfCall[h].entry_trade.timestamp)
          /\ ret.largest_win = R(3)
          /\ ret.largest_win_group_id = GroupsOfCall[g].entry_trade.id

-----------------------------------------------------------------------------
(* Streaks of get_metrics *)

\* the net P&L of the pairs get_metrics scanned, in exit-timestamp order
ScannedPnl == NetOf(SortByExit(MetricPairs))

IsWinPnl(pnl) == RLt(R(0), pnl)

IsLossPnl(pnl) == RLt(pnl, R(0))

\* the length of the run of pairs of one kind that ends at place i
RunEndingAt(pnl_values, i, Kind(_)) ==
    IF i = 0 \/ ~Kind(pnl_values[i]) THEN 0
    ELSE LET first == CHOOSE a \in 1..i :
                          /\ \A j \in a..i : Kind(pnl_values[j])
                          /\ a = 1 \/ ~Kind(pnl_values[a - 1])
         IN  i - first + 1

\* the longest run of pairs of one kind
LongestRun(pnl_values, Kind(_)) ==
    IF pnl_values = <<>> THEN 0
    ELSE LET lengths == {RunEndingAt(pnl_values, i, Kind) : i \in 1..Len(pnl_values)}
         IN  CHOOSE n \in lengths : \A other \in lengths : other <= n

\* C19: with the pairs scanned in exit-timestamp order, consecutive_wins
\* (consecutive_losses) is the largest number of consecutive pairs with net P&L
\* above (below) 0, and current_win_streak (current_loss_streak) is the length of
\* the run of winning (losing) pairs that ends at the last pair; a pair with net
\* P&L 0 ends a run.
C19_Streaks ==
    MetricsRan =>
        /\ ret.consecutive_wins = LongestRun(ScannedPnl, IsWinPnl)
        /\ ret.consecutive_losses = LongestRun(ScannedPnl, IsLossPnl)
        /\ ret.current_win_streak = RunEndingAt(ScannedPnl, Len(ScannedPnl), IsWinPnl)
        /\ ret.current_loss_streak = RunEndingAt(ScannedPnl, Len(ScannedPnl), IsLossPnl)

-----------------------------------------------------------------------------
(* The walk of get_equity_curve *)

\* the pairs get_equity_curve walks: those its date filter keeps
CurvePairs == FilterPairs(FullHistoryPairs, call.start_date, call.end_date)

ExitDates == {DateOf(CurvePairs[i].exit_timestamp) : i \in 1..Len(CurvePairs)}

\* the net P&L of the walked pairs that exit on the date, and up to the date
NetOn(date) ==
    RSum(NetOf(SelectSeq(CurvePairs, LAMBDA p : DateOf(p.exit_timestamp) = date)))

NetUpTo(date) ==
    RSum(NetOf(SelectSeq(CurvePairs, LAMBDA p : DateOf(p.exit_timestamp) <= date)))

\* peak is the largest of 0 and the cumulative values of the first k points
IsPeakOf(points, k, peak) ==
    /\ peak = R(0) \/ \E j \in 1..k : peak = points[j].cumulative_pnl
    /\ RLe(R(0), peak)
    /\ \A j \in 1..k : RLe(points[j].cumulative_pnl, peak)

\* C20: the points of get_equity_curve are in strictly ascending date order, one
\* per exit date; at every point cumulative_pnl is the sum of the daily P&L of the
\* dates up to it, peak_equity is the largest of 0 and the cumulative values so
\* far (so it never falls and is never below cumulative_pnl), drawdown is
\* peak_equity - cumulative_pnl and never negative; the last cumulative_pnl is the
\* sum of the net P&L of the pairs in range.
C20_EquityCurveWalk ==
    EquityRan =>
        LET points == ret.equity_points IN
        /\ {points[k].date : k \in 1..Len(points)} = ExitDates
        /\ Len(points) = Cardinality(ExitDates)
        /\ \A k \in 1..(Len(points) - 1) :
              /\ points[k].date < points[k + 1].date
              /\ RLe(points[k].peak_equity, points[k + 1].peak_equity)
        /\ \A k \in 1..Len(points) :
              /\ points[k].daily_pnl = NetOn(points[k].date)
              /\ points[k].cumulative_pnl = NetUpTo(points[k].date)
              /\ IsPeakOf(points, k, points[k].peak_equity)
              /\ RLe(points[k].cumulative_pnl, points[k].peak_equity)
              /\ points[k].drawdown = RSub(points[k].peak_equity, points[k].cumulative_pnl)
              /\ RLe(R(0), points[k].drawdown)
        /\ points # <<>> => points[Len(points)].cumulative_pnl = RSum(NetOf(CurvePairs))

\* a curve of three days that rises to a peak, falls below it and rises to a new peak
C20_Witness ==
    /\ EquityRan
    /\ Len(ret.equity_points) = 3
    /\ RLt(R(0), ret.equity_points[1].peak_equity)
    /\ RLt(R(0), ret.equity_points[2].drawdown)
    /\ ret.equity_points[2].peak_equity = ret.equity_points[1].peak_equity
    /\ RLt(ret.equity_points[2].peak_equity, ret.equity_points[3].peak_equity)
    /\ ret.equity_points[3].drawdown = R(0)

-----------------------------------------------------------------------------
(* The drawdown runs of get_equity_curve *)

InDrawdown(points, k) == RLt(R(0), points[k].drawdown)

\* the places a..b are a run of points in drawdown that cannot be extended
IsDrawdownRun(points, a, b) ==
    /\ a <= b
    /\ \A k \in a..b : InDrawdown(points, k)
    /\ a = 1 \/ ~InDrawdown(points, a - 1)
    /\ b = Len(points) \/ ~InDrawdown(points, b + 1)

DrawdownRuns(points) ==
    {run \in (1..Len(points)) \X (1..Len(points)) : IsDrawdownRun(points, run[1], run[2])}

\* the number of points of the longest run, 0 when no point is in drawdown
LongestRunDays(points) ==
    IF DrawdownRuns(points) = {} THEN 0
    ELSE LET lengths == {run[2] - run[1] + 1 : run \in DrawdownRuns(points)}
         IN  CHOOSE n \in lengths : \A other \in lengths : other <= n

\* C21: longest_drawdown_days of get_equity_curve is the largest number of
\* consecutive equity points with drawdown > 0, a run still in drawdown at the last
\* point included, and longest_drawdown_start and longest_drawdown_end are the
\* dates of the first and of the last point of a run of that length.
C21_LongestDrawdownRun ==
    EquityRan =>
        LET points == ret.equity_points
            m == ret.drawdown_metrics
        IN  /\ m.longest_drawdown_days = LongestRunDays(points)
            /\ m.longest_drawdown_days > 0 =>
                  \E run \in DrawdownRuns(points) :
                      /\ run[2] - run[1] + 1 = m.longest_drawdown_days
                      /\ m.longest_drawdown_start = points[run[1]].date
                      /\ m.longest_drawdown_end = points[run[2]].date

-----------------------------------------------------------------------------
(* The best surge of get_equity_curve *)

\* the point at place j stands at the peak of the curve so far
IsPeakPoint(points, j) ==
    /\ RLt(R(0), points[j].cumulative_pnl)
    /\ points[j].cumulative_pnl = points[j].peak_equity

\* the rises from the most recent peak point to a later, higher point
Surges(points) ==
    {s \in (1..Len(points)) \X (1..Len(points)) :
        /\ s[1] < s[2]
        /\ IsPeakPoint(points, s[1])
        /\ \A i \in (s[1] + 1)..(s[2] - 1) : ~IsPeakPoint(points, i)
        /\ RLt(points[s[1]].cumulative_pnl, points[s[2]].cumulative_pnl)}

SurgeGain(points, s) == RSub(points[s[2]].cumulative_pnl, points[s[1]].cumulative_pnl)

\* C22: best_surge_value of get_equity_curve is the largest gain in cumulative P&L
\* from the most recent peak to a later high, and best_surge_start and
\* best_surge_end are the dates of that peak and of that high; whenever the
\* cumulative P&L rises from a peak to a higher value on a later day,
\* best_surge_value is above 0 and both dates are present.
C22_BestSurge ==
    EquityRan =>
        LET points == ret.equity_points IN
        IF Surges(points) = {}
        THEN ret.best_surge_value = R(0)
        ELSE /\ RLt(R(0), ret.best_surge_value)
             /\ ret.best_surge_start # NoDate
             /\ ret.best_surge_end # NoDate
             /\ \A s \in Surges(points) : RLe(SurgeGain(points, s), ret.best_surge_value)
             /\ \E s \in Surges(points) :
                   /\ SurgeGain(points, s) = ret.best_surge_value
                   /\ ret.best_surge_start = points[s[1]].date
                   /\ ret.best_surge_end = points[s[2]].date

-----------------------------------------------------------------------------
(* The per-day flags of get_equity_curve *)

\* the date lies from start to end, both present and both included
DateInRange(date, start, end) ==
    /\ start # NoDate
    /\ end # NoDate
    /\ start <= date
    /\ date <= end

\* C23: in the data returned by get_equity_curve a point has is_max_drawdown
\* exactly when its date lies in [max_drawdown_start, max_drawdown_end] of the
\* returned drawdown_metrics, and is_best_surge exactly when its date lies in
\* [best_surge_start, best_surge_end] of the returned data.
C23_FlagsAreRangeTests ==
    EquityRan =>
        LET points == ret.equity_points
            m == ret.drawdown_metrics
        IN  \A k \in 1..Len(points) :
                /\ points[k].is_max_drawdown
                      <=> DateInRange(points[k].date, m.max_drawdown_start, m.max_drawdown_end)
                /\ points[k].is_best_surge
                      <=> DateInRange(points[k].date, ret.best_surge_start, ret.best_surge_end)

-----------------------------------------------------------------------------
(* The streak flags of get_equity_curve *)

\* C29: in the points of get_equity_curve no day is flagged both is_winning_streak
\* and is_losing_streak; a day flagged winning is a day of a run of days with
\* positive daily P&L, and a day flagged losing is a day of a run of days with
\* negative daily P&L.
C29_StreakFlags ==
    EquityRan =>
        LET points == ret.equity_points IN
        \A k \in 1..Len(points) :
            /\ ~(points[k].is_winning_streak /\ points[k].is_losing_streak)
            /\ points[k].is_winning_streak => RLt(R(0), points[k].daily_pnl)
            /\ points[k].is_losing_streak => RLt(points[k].daily_pnl, R(0))

-----------------------------------------------------------------------------
(* One side per symbol in pair_trades *)

\* some lot of the list has quantity left
HasRemaining(lots) == \E i \in 1..Len(lots) : lots[i].qty > 0

\* C26: in pair_trades, after any prefix of the sorted trade list (quantities
\* above 0), no symbol has a long lot and a short lot with remaining quantity at
\* the same time; so the open trades returned for one symbol all have one side.
C26_OneSidePerSymbol ==
    MatcherRan =>
        /\ \A n \in 0..Len(MatcherInput) : \A symbol \in Symbols :
              ~(/\ HasRemaining(LotsOf(AfterTrade(n).long, symbol))
                /\ HasRemaining(LotsOf(AfterTrade(n).short, symbol)))
        /\ \A i, j \in 1..Len(ret.open_trades) :
              ret.open_trades[i].symbol = ret.open_trades[j].symbol
                  => ret.open_trades[i].side = ret.open_trades[j].side

\* a trade closed the lots of the other side and what was left of it is returned
\* as an open trade, next to an open trade of the other symbol on the other side
C26_Witness ==
    /\ MatcherRan
    /\ \E i, j \in 1..Len(ret.open_trades) :
          /\ ret.open_trades[i].symbol # ret.open_trades[j].symbol
          /\ ret.open_trades[i].side # ret.open_trades[j].side
          /\ \E k \in 1..Len(ret.pairs) :
                ret.pairs[k].exit_trade_id = ret.open_trades[i].id

-----------------------------------------------------------------------------
(* The order of the pairs of pair_trades *)

\* the list handed to pair_trades, and the trade of an id in it
PassedList == call.trade_list

PassedPlace(id) == CHOOSE i \in 1..Len(PassedList) : PassedList[i].id = id

PassedTrade(id) == PassedList[PassedPlace(id)]

\* a comes before b in the list sorted by timestamp, equal timestamps in the order
\* of the list handed over
SortedBefore(a, b) ==
    \/ PassedTrade(a).timestamp < PassedTrade(b).timestamp
    \/ /\ PassedTrade(a).timestamp = PassedTrade(b).timestamp
       /\ PassedPlace(a) < PassedPlace(b)

\* C28: in every pair of pair_trades the entry trade comes before the exit trade
\* in the timestamp-sorted input (entry_timestamp <= exit_timestamp, two different
\* trades of one symbol and of opposite sides), and the pairs are returned in
\* non-decreasing exit_timestamp order, equal exit timestamps in the order of the
\* input list, whatever the order of that list.
C28_PairOrder ==
    MatcherRan =>
        /\ \A k \in 1..Len(ret.pairs) :
              LET pair == ret.pairs[k]
                  entry == PassedTrade(pair.entry_trade_id)
                  exit == PassedTrade(pair.exit_trade_id)
              IN  /\ pair.entry_trade_id # pair.exit_trade_id
                  /\ SortedBefore(pair.entry_trade_id, pair.exit_trade_id)
                  /\ pair.entry_timestamp = entry.timestamp
                  /\ pair.exit_timestamp = exit.timestamp
                  /\ TsLe(pair.entry_timestamp, pair.exit_timestamp)
                  /\ entry.symbol = pair.symbol
                  /\ exit.symbol = pair.symbol
                  /\ to_uppercase(entry.side) # to_uppercase(exit.side)
        /\ \A j, k \in 1..Len(ret.pairs) :
              j < k =>
                  \/ ret.pairs[j].exit_trade_id = ret.pairs[k].exit_trade_id
                  \/ SortedBefore(ret.pairs[j].exit_trade_id, ret.pairs[k].exit_trade_id)

\* a list handed over in descending order, with two pairs closed by two trades of
\* one timestamp
C28_Witness ==
    /\ MatcherRan
    /\ \E i \in 1..(Len(PassedList) - 1) :
          PassedList[i].timestamp > PassedList[i + 1].timestamp
    /\ \E j, k \in 1..Len(ret.pairs) :
          /\ j < k
          /\ ret.pairs[j].exit_trade_id # ret.pairs[k].exit_trade_id
          /\ ret.pairs[j].exit_timestamp = ret.pairs[k].exit_timestamp

-----------------------------------------------------------------------------
(* Pairs and position groups *)

\* the pairs get_position_groups computed from the list it read
GrouperPairs == MatchWith(GrouperInput, call.pairing_method)

\* the groups whose position_trades hold the trade id
GroupsHolding(position_groups, id) ==
    {g \in 1..Len(position_groups) : id \in Ids(position_groups[g].position_trades)}

\* the groups that count the pair in their total_pnl: one endpoint is in the group
GroupsCounting(position_groups, pair) ==
    GroupsHolding(position_groups, pair.entry_trade_id)
        \cup GroupsHolding(position_groups, pair.exit_trade_id)

\* the pairs of the list whose two endpoints are both in the group
PairsInside(pairs, group) ==
    SelectSeq(pairs, LAMBDA p : /\ p.entry_trade_id \in Ids(group.position_trades)
                                /\ p.exit_trade_id \in Ids(group.position_trades))

\* C27: with pairs and groups computed from the same Filled trade list, the entry
\* trade and the exit trade of every pair are in the same position group, every
\* pair is counted in the total_pnl of exactly one group, and the sum of
\* total_pnl over all groups is the sum of net_profit_loss over all pairs.
C27_PairsWithinGroups ==
    GroupsRan =>
        /\ \A k \in 1..Len(GrouperPairs) :
              /\ GroupsHolding(ret, GrouperPairs[k].entry_trade_id)
                    = GroupsHolding(ret, GrouperPairs[k].exit_trade_id)
              /\ Cardinality(GroupsCounting(ret, GrouperPairs[k])) = 1
        /\ \A g \in 1..Len(ret) :
              ret[g].total_pnl = RSum(NetOf(PairsInside(GrouperPairs, ret[g])))
        /\ RSum([g \in 1..Len(ret) |-> ret[g].total_pnl]) = RSum(NetOf(GrouperPairs))

\* two groups of one symbol, each with a pair of its own, with different totals
C27_Witness ==
    /\ GroupsRan
    /\ Len(GrouperPairs) = 2
    /\ \E g, h \in 1..Len(ret) :
          /\ RLt(ret[h].total_pnl, ret[g].total_pnl)
          /\ ret[h].total_pnl # R(0)
          /\ Len(PairsInside(GrouperPairs, ret[g])) = 1
          /\ Len(PairsInside(GrouperPairs, ret[h])) = 1

-----------------------------------------------------------------------------
(* The recommended stop streak of get_tilt_metric *)

\* the net P&L of the pairs get_tilt_metric analyses, in exit-timestamp order
TiltPnl == NetOf(SortByExit(CurvePairs))

\* the places of the pairs that directly follow k losing pairs in a row; a pair
\* with net P&L 0 is not part of the sample
FollowsLosses(pnl_values, k) ==
    {i \in (k + 1)..Len(pnl_values) :
        /\ pnl_values[i] # R(0)
        /\ \A j \in 1..k : IsLossPnl(pnl_values[i - j])}

RECURSIVE SumAt(_, _)
SumAt(pnl_values, places) ==
    IF places = {} THEN R(0)
    ELSE LET i == CHOOSE p \in places : TRUE
         IN  RAdd(pnl_values[i], SumAt(pnl_values, places \ {i}))

WinShare(pnl_values, places) ==
    Ratio(Cardinality({i \in places : IsWinPnl(pnl_values[i])}), Cardinality(places))

\* the three conditions of a recommendation for k
Qualifies(pnl_values, k) ==
    LET sample == FollowsLosses(pnl_values, k) IN
    /\ Cardinality(sample) >= 20
    /\ RLe(Ratio(15, 100),
           RSub(WinShare(pnl_values, 1..Len(pnl_values)), WinShare(pnl_values, sample)))
    /\ RLt(SumAt(pnl_values, sample), R(0))

\* C24: recommended_streak of get_tilt_metric is the smallest k in 1..4 such that
\* the sample of pairs that directly follow k losing pairs in a row has 20 members
\* or more, the baseline win rate less the win rate of the sample is 0.15 or more,
\* and the average net P&L of the sample is below 0; it is absent exactly when no
\* k in 1..4 meets the three conditions.
C24_RecommendedStreak ==
    TiltRan =>
        Bind(TiltPnl, LAMBDA pnl_values :
        Bind({k \in 1..4 : Qualifies(pnl_values, k)}, LAMBDA qualifying :
            IF qualifying = {} THEN ret.recommended_streak = NoStreak
            ELSE /\ ret.recommended_streak \in qualifying
                 /\ \A k \in qualifying : ret.recommended_streak <= k))

\* the sample after one loss is large enough and does not qualify, and the
\* recommendation is to stop after two losses
C24_Witness ==
    /\ TiltRan
    /\ ret.recommended_streak = 2
    /\ Bind(TiltPnl, LAMBDA pnl_values :
            /\ Cardinality(FollowsLosses(pnl_values, 1)) >= 20
            /\ ~Qualifies(pnl_values, 1))

-----------------------------------------------------------------------------
(* The coaching text of get_tilt_metric *)

IsCalmText(coaching_lines) ==
    coaching_lines # <<>> /\ coaching_lines[1] = "similar to your baseline"

IsModerateText(coaching_lines) ==
    coaching_lines # <<>> /\ coaching_lines[1] = "degrades after losing trades"

IsSevereText(coaching_lines) ==
    coaching_lines # <<>> /\ coaching_lines[1] = "strong signs of emotional tilt"

\* C25: whenever get_tilt_metric returns the category "Calm & Disciplined" the
\* coaching lines are the calm template, whenever it returns "Moderate Tilt Risk"
\* they are the moderate template, and the severe template comes only with the
\* category "High Tilt / Severe Tilt", with and without a recommended streak.
C25_CoachingFollowsCategory ==
    TiltRan =>
        /\ ret.tilt_category = "Calm & Disciplined" => IsCalmText(ret.coaching_lines)
        /\ ret.tilt_category = "Moderate Tilt Risk" => IsModerateText(ret.coaching_lines)
        /\ IsSevereText(ret.coaching_lines) => ret.tilt_category = "High Tilt / Severe Tilt"

-----------------------------------------------------------------------------
(* The histogram of get_distribution_concentration *)

DistributionRan == call.cmd = "get_distribution_concentration"

\* the net P&L of the pairs the date filter of the call keeps
HistogramPnl ==
    Bind(MetricPairs, LAMBDA pairs : [i \in 1..Len(pairs) |-> pairs[i].net_profit_loss])

\* the bins of a histogram that hold a value: a bin holds the values from its start
\* up to its end, the last bin also those from its end on
BinsHolding(histogram, pnl) ==
    {n \in 1..Len(histogram) :
        /\ RLe(histogram[n].bin_start, pnl)
        /\ (n = Len(histogram) \/ RLt(pnl, histogram[n].bin_end))}

\* the bins of the single-bin histogram run from the least to the greatest value
BinsHoldingClosed(histogram, pnl) ==
    {n \in 1..Len(histogram) :
        RLe(histogram[n].bin_start, pnl) /\ RLe(pnl, histogram[n].bin_end)}

CountSum(histogram) ==
    RSum([n \in 1..Len(histogram) |-> R(histogram[n].count)])

BinPnlSum(histogram) ==
    RSum([n \in 1..Len(histogram) |-> histogram[n].total_pnl])

\* C30: whenever get_distribution_concentration answers on a non-empty list of
\* pairs, every pair's net P&L lies in exactly one bin of the histogram, the counts
\* of the bins sum to total_trades, the total_pnl of the bins sum to the total net
\* P&L of the pairs, and the histogram has between 1 and 20 bins; all-negative and
\* all-positive lists of P&L included.
C30_HistogramCoverage ==
    DistributionRan =>
        Bind(HistogramPnl, LAMBDA pnl_values :
            pnl_values # <<>> =>
                /\ \A i \in 1..Len(pnl_values) :
                       Cardinality(IF Len(ret.histogram) = 1
                                   THEN BinsHoldingClosed(ret.histogram, pnl_values[i])
                                   ELSE BinsHolding(ret.histogram, pnl_values[i])) = 1
                /\ CountSum(ret.histogram) = R(ret.concentration.total_trades)
                /\ ret.concentration.total_trades = Len(pnl_values)
                /\ BinPnlSum(ret.histogram) = RSum(pnl_values)
                /\ Len(ret.histogram) \in 1..MaxBins)

====
